---- MODULE Spec2Model ----
(***************************************************************************)
(* DreamTracker.  The analytics page (AnalyticsPage component): the loaded *)
(* entry list, the search query, the sort state and the values derived     *)
(* from them on every render: the filtered and sorted view, the chart      *)
(* window, the summary statistics and the suggestion text.  Around it the  *)
(* application: the App component, the login, journal and profile pages,   *)
(* the auth service and the two tables of the store.                       *)
(*                                                                         *)
(* Text is a sequence of characters.  sleep_hours is kept in tenths of an  *)
(* hour (the column is DECIMAL(3,1)), created_at in store ticks, which are *)
(* finer than the millisecond a JavaScript Date holds.                     *)
(***************************************************************************)
EXTENDS Integers, Sequences, FiniteSets, TLC

VARIABLES
    \* AnalyticsPage
    entries,      \* useState<DreamEntry[]>([])
    searchQuery,  \* useState('')
    sortBy,       \* useState('created_at')
    sortOrder,    \* useState('desc')
    isLoading,    \* useState(true)
    filteredAndSortedEntries,  \* the useMemo value of the last render
    \* App
    currentPage,  \* useState('login')
    isLoggedIn,   \* useState(false)
    currentUser,  \* useState(null)
    \* the other pages: the useState values of each, as a record
    login,        \* LoginPage
    journal,      \* JournalPage
    profile,      \* ProfilePage
    \* the services
    session,        \* the user the auth service holds a session for
    profiles,       \* table public.profiles, by user id
    dream_entries,  \* table public.dream_entries, in insertion order
    serial,         \* rows inserted into dream_entries so far
    lookups,        \* users whose App.loadUserProfile is not answered yet
    \* what the last step gave out
    toasts,       \* the notifications it showed
    requests,     \* the requests it sent to the services
    download      \* the file it saved

\* everything outside the analytics page but the outputs of a step
app == <<currentPage, isLoggedIn, currentUser, login, journal, profile,
         session, profiles, dream_entries, serial, lookups>>

vars == <<entries, searchQuery, sortBy, sortOrder, isLoading,
          filteredAndSortedEntries, app, toasts, requests, download>>

----------------------------------------------------------------------------
(* Bounds of the model *)

\* longest entry list loaded in the filter/sort specification
MaxEntries == 3
\* longest entry list loaded in the statistics specification
MaxStatLen == 11
\* longest entry list loaded in the chart specification
MaxChartLen == 8
\* store ticks per millisecond (a timestamptz column holds microseconds)
SubMs == 2
\* milliseconds per calendar day, and days before a month/day label repeats
MsPerDay == 2
DaysPerYear == 3

----------------------------------------------------------------------------
(* Text: String.prototype.toLowerCase and String.prototype.includes *)

\* the letters of the model: a Latin letter in both cases, a second
\* lower-case letter, and the Greek sigma in its three forms (capital,
\* small, and final small)
Chars == {"a", "A", "b", "sigma", "SIGMA", "fsigma"}

\* every letter of the model is a cased letter
Cased(c) == c \in Chars

\* toLowerCase of the character at position i of s: the Unicode lower-case
\* mapping, with the Final_Sigma rule of SpecialCasing.txt (a capital sigma
\* that follows a cased letter and is not followed by one becomes the final
\* form)
LowerAt(s, i) ==
    IF s[i] = "A" THEN "a"
    ELSE IF s[i] = "SIGMA"
         THEN IF /\ i > 1
                 /\ Cased(s[i - 1])
                 /\ ~(i < Len(s) /\ Cased(s[i + 1]))
              THEN "fsigma"
              ELSE "sigma"
         ELSE s[i]

ToLowerCase(s) == [i \in 1..Len(s) |-> LowerAt(s, i)]

\* s.includes(q): q occurs in s at some position (the empty q always does)
Includes(s, q) ==
    \E p \in 0..(Len(s) - Len(q)) :
        \A j \in 1..Len(q) : s[p + j] = q[j]

\* a filter that takes the empty query to match nothing
MatchesQuery_EmptyMatchesNothing(entry, q) ==
    /\ q # <<>>
    /\ \/ Includes(ToLowerCase(entry.title), ToLowerCase(q))
       \/ Includes(ToLowerCase(entry.content), ToLowerCase(q))

\* the predicate of entries.filter(...)
MatchesQuery(entry, q) ==
    \/ Includes(ToLowerCase(entry.title), ToLowerCase(q))
    \/ Includes(ToLowerCase(entry.content), ToLowerCase(q))

Filter(es, q) == SelectSeq(es, LAMBDA e : MatchesQuery(e, q))

----------------------------------------------------------------------------
(* Sorting the filtered list *)

SortFields == {"created_at", "sleep_quality", "sleep_hours"}
SortOrders == {"asc", "desc"}

\* new Date(created_at).getTime(): a Date holds whole milliseconds
GetTime(created_at) == created_at \div SubMs

\* aVal / bVal of the comparator
SortVal(e, by) ==
    IF by = "created_at" THEN GetTime(e.created_at)
    ELSE IF by = "sleep_quality" THEN e.sleep_quality
    ELSE e.sleep_hours

\* a comparator with the two orders exchanged
Compare_OrdersExchanged(a, b, by, ord) ==
    IF ord = "asc"
    THEN IF SortVal(a, by) < SortVal(b, by) THEN 1 ELSE -1
    ELSE IF SortVal(a, by) > SortVal(b, by) THEN 1 ELSE -1

\* the comparator handed to filtered.sort: it never returns 0
Compare(a, b, by, ord) ==
    IF ord = "asc"
    THEN IF SortVal(a, by) > SortVal(b, by) THEN 1 ELSE -1
    ELSE IF SortVal(a, by) < SortVal(b, by) THEN 1 ELSE -1

\* Array.prototype.sort with that comparator.  On equal keys the comparator
\* answers "a before b" for both argument orders, so it is not a consistent
\* comparator and the order of such entries is implementation-defined: the
\* outcomes are the arrangements in which the comparator puts every entry
\* before every later one.  idx is the set of positions still to place.
RECURSIVE SortFrom(_, _, _, _)
SortFrom(es, idx, by, ord) ==
    IF idx = {} THEN {<<>>}
    ELSE UNION {
            { <<es[i]>> \o rest : rest \in SortFrom(es, idx \ {i}, by, ord) } :
            i \in { k \in idx :
                      \A j \in idx \ {k} :
                          Compare(es[k], es[j], by, ord) < 0 } }

\* a sort whose result the keys do not determine: any arrangement
SortOutcomes_AnyArrangement(es, by, ord) ==
    { [i \in DOMAIN es |-> es[p[i]]] : p \in Permutations(DOMAIN es) }

SortOutcomes(es, by, ord) == SortFrom(es, DOMAIN es, by, ord)

\* the values filteredAndSortedEntries can take
ViewOutcomes(es, q, by, ord) == SortOutcomes(Filter(es, q), by, ord)

----------------------------------------------------------------------------
(* Entries the store can return *)

Moods == {"great", "good", "neutral", "bad", "none"}

\* the text and metrics of the entries of the filter/sort specification
ViewTemplates ==
    { [title |-> <<"b", "A">>, content |-> <<"b">>,
       sleep_hours |-> 75, caffeine_intake |-> 1, sleep_quality |-> 8,
       mood |-> "good", stress_level |-> 3],
      [title |-> <<"b">>, content |-> <<"a", "SIGMA">>,
       sleep_hours |-> 60, caffeine_intake |-> 3, sleep_quality |-> 8,
       mood |-> "none", stress_level |-> 7],
      [title |-> <<"b">>, content |-> <<"sigma", "b">>,
       sleep_hours |-> 75, caffeine_intake |-> 0, sleep_quality |-> 5,
       mood |-> "bad", stress_level |-> 5] }

\* the search strings typed into the search box
Queries == { <<>>, <<"A">>, <<"SIGMA">> }

\* ticks between two consecutive inserts: the next tick (possibly within
\* the same millisecond) or a whole millisecond later
Gaps == {1, SubMs}

\* a stored row: the store assigns id and created_at
Row(t, id, at) ==
    [id |-> id, user_id |-> "u1", title |-> t.title, content |-> t.content,
     sleep_hours |-> t.sleep_hours, caffeine_intake |-> t.caffeine_intake,
     sleep_quality |-> t.sleep_quality, mood |-> t.mood,
     stress_level |-> t.stress_level, created_at |-> at]

\* the lists select('*').order('created_at', {ascending: false}) returns
\* for a store of at most n rows with templates from T: newest first
RECURSIVE StoreLists(_, _)
StoreLists(T, n) ==
    IF n = 0 THEN {<<>>}
    ELSE LET shorter == StoreLists(T, n - 1)
         IN  shorter \cup
             { <<Row(t, Len(l) + 1,
                     IF l = <<>> THEN 0 ELSE l[1].created_at + g)>> \o l :
               t \in T, g \in Gaps,
               l \in { s \in shorter : Len(s) = n - 1 } }

ViewLists == StoreLists(ViewTemplates, MaxEntries)

----------------------------------------------------------------------------
(* Notifications, requests and files *)

\* the value of stats when there is no summary, and of currentUser when
\* nobody is logged in
Null == [absent |-> TRUE]

\* a user id that is null: no user
NullUser == "null"

Users == {"u1", "u2", "u3"}

\* toast.error(message) and toast.success(message)
Toast(kind, message) == [kind |-> kind, message |-> message]

\* a request: the service or table it goes to, the operation, and the user
\* id it carries (the filter of a select, count, update or delete, the owner
\* of an inserted row; none for the auth service)
Request(to, op, user_id) == [to |-> to, op |-> op, user_id |-> user_id]

\* supabase.auth.getUser()
GetUser == Request("auth", "getUser", "")

\* no file saved
NoFile == [name |-> <<>>, contents |-> <<>>]

\* what a step gives out
Outputs(shown, sent, saved) ==
    /\ toasts' = shown
    /\ requests' = sent
    /\ download' = saved

\* a step of the user interface alone
Silent == Outputs(<<>>, <<>>, NoFile)

----------------------------------------------------------------------------
(* The users, their profiles, and the pages as they are when mounted *)

\* an e-mail address and a name for each user
EmailOf(u) == <<u, "@", "x">>
NameOf(u) == <<"n", u>>

\* split_part(text, delim, n) of the database: the n-th field of text
RECURSIVE SplitPart(_, _, _)
SplitPart(text, delim, n) ==
    LET at == { i \in DOMAIN text : text[i] = delim }
        k == CHOOSE i \in at : \A j \in at : i <= j
    IN  IF at = {} THEN IF n = 1 THEN text ELSE <<>>
        ELSE IF n = 1 THEN SubSeq(text, 1, k - 1)
        ELSE SplitPart(SubSeq(text, k + 1, Len(text)), delim, n - 1)

\* a trigger that names the profile after the whole address
handle_new_user_WholeEmail(email, name) ==
    [name |-> IF name # <<>> THEN name ELSE email, email |-> email]

\* the trigger on_auth_user_created: the profile row handle_new_user makes
\* for a new identity with the address email and the name of its meta
\* data; <<>> is no name (the sign-up form sends no empty name)
handle_new_user(email, name) ==
    [name |-> IF name # <<>> THEN name ELSE SplitPart(email, "@", 1),
     email |-> email]

\* the users registered from the start, and their profile rows: u1 signed
\* up with a name, u2 was made without one
Registered == {"u1", "u2"}
Unnamed == {"u2"}
ProfileRows ==
    [u \in Registered |->
        handle_new_user(EmailOf(u), IF u \in Unnamed THEN <<>> ELSE NameOf(u))]

\* the store has not counted the rows yet
NotCounted == -1

\* the pages behind the login
Pages == {"journal", "analytics", "profile"}

\* LoginPage, its useState values; submitting counts the handleSubmit and
\* handleTestLogin calls not answered yet, testing says that the one that
\* waits for the auth service is a handleTestLogin
LoginPage0 ==
    [isSignup |-> FALSE, showPassword |-> FALSE, email |-> <<>>,
     password |-> <<>>, name |-> <<>>, isLoading |-> FALSE,
     testing |-> FALSE, submitting |-> 0]

\* JournalPage, its useState values; mood null is "none"; saving counts
\* the handleSaveEntry calls not answered yet
JournalPage0 ==
    [dreamTitle |-> <<>>, dreamContent |-> <<>>, sleepHours |-> 70,
     caffeineIntake |-> 0, sleepQuality |-> 5, mood |-> "none",
     stressLevel |-> 5, isLoading |-> FALSE, saving |-> 0]

\* ProfilePage, its useState values for the currentUser cu it is mounted
\* with; counting says that the loadEntryCount of the mount is not answered
\* yet, counted is the count in the answer that is on its way, saving counts
\* the handleSaveProfile calls not answered yet
ProfilePage0(cu) ==
    [name |-> IF cu = Null THEN <<>> ELSE cu.name,
     email |-> IF cu = Null THEN <<>> ELSE cu.email,
     entryCount |-> 0, isLoading |-> FALSE,
     counting |-> TRUE, counted |-> NotCounted, saving |-> 0]

\* the page the App renders: LoginPage while not logged in, else the page
\* currentPage names
Mounted(page) ==
    IF page = "login" THEN ~isLoggedIn
    ELSE isLoggedIn /\ currentPage = page

----------------------------------------------------------------------------
(* The page *)

\* the analytics page as it is when mounted
AnalyticsPage0 ==
    /\ entries = <<>>
    /\ searchQuery = <<>>
    /\ sortBy = "created_at"
    /\ sortOrder = "desc"
    /\ isLoading = TRUE
    /\ filteredAndSortedEntries = <<>>

\* the analytics page just mounted for user u1, its effect calling getUser
Init ==
    /\ AnalyticsPage0
    /\ currentPage = "analytics"
    /\ isLoggedIn = TRUE
    /\ currentUser = [email |-> EmailOf("u1"), name |-> NameOf("u1")]
    /\ login = LoginPage0
    /\ journal = JournalPage0
    /\ profile = ProfilePage0(Null)
    /\ session = "u1"
    /\ profiles = ProfileRows
    /\ dream_entries = <<>>
    /\ serial = 0
    /\ lookups = {}
    /\ toasts = <<>>
    /\ requests = <<GetUser>>
    /\ download = NoFile

\* loadEntries, the store answering with data
loadEntriesOk(data) ==
    /\ Mounted("analytics")
    /\ isLoading
    /\ session # NullUser
    /\ entries' = data
    /\ isLoading' = FALSE
    /\ filteredAndSortedEntries' \in
          ViewOutcomes(data, searchQuery, sortBy, sortOrder)
    /\ Outputs(<<>>, <<Request("dream_entries", "select", session)>>, NoFile)
    /\ UNCHANGED <<searchQuery, sortBy, sortOrder, app>>

\* loadEntries, no current user: only the loading flag is cleared
loadEntriesNoUser ==
    /\ Mounted("analytics")
    /\ isLoading
    /\ isLoading' = FALSE
    /\ Silent
    /\ UNCHANGED <<entries, searchQuery, sortBy, sortOrder,
                   filteredAndSortedEntries, app>>

\* loadEntries, the store answering with an error: logged, flag cleared
loadEntriesError ==
    /\ Mounted("analytics")
    /\ isLoading
    /\ session # NullUser
    /\ isLoading' = FALSE
    /\ Outputs(<<>>, <<Request("dream_entries", "select", session)>>, NoFile)
    /\ UNCHANGED <<entries, searchQuery, sortBy, sortOrder,
                   filteredAndSortedEntries, app>>

\* a search that filters the loaded list itself instead of a copy
setSearchQuery_FiltersInPlace(q) ==
    /\ Mounted("analytics")
    /\ ~isLoading
    /\ q # searchQuery
    /\ searchQuery' = q
    /\ entries' = Filter(entries, q)
    /\ filteredAndSortedEntries' \in
          SortOutcomes(entries', sortBy, sortOrder)
    /\ Silent
    /\ UNCHANGED <<sortBy, sortOrder, isLoading, app>>

\* typing in the search box (rendered only once loading is over)
setSearchQuery(q) ==
    /\ Mounted("analytics")
    /\ ~isLoading
    /\ q # searchQuery
    /\ searchQuery' = q
    /\ filteredAndSortedEntries' \in
          ViewOutcomes(entries, q, sortBy, sortOrder)
    /\ Silent
    /\ UNCHANGED <<entries, sortBy, sortOrder, isLoading, app>>

\* the sort state <<sortBy, sortOrder>> toggleSort(field) sets, from the
\* sort state <<by, ord>>
SortStateAfter(by, ord, field) ==
    IF by = field
    THEN <<by, IF ord = "asc" THEN "desc" ELSE "asc">>
    ELSE <<field, "desc">>

\* a toggleSort that keeps the order when the field changes
toggleSort_KeepsOrder(field) ==
    /\ Mounted("analytics")
    /\ ~isLoading
    /\ IF sortBy = field
       THEN /\ sortOrder' = (IF sortOrder = "asc" THEN "desc" ELSE "asc")
            /\ sortBy' = sortBy
       ELSE /\ sortBy' = field
            /\ sortOrder' = sortOrder
    /\ filteredAndSortedEntries' \in
          ViewOutcomes(entries, searchQuery, sortBy', sortOrder')
    /\ Silent
    /\ UNCHANGED <<entries, searchQuery, isLoading, app>>

toggleSort(field) ==
    /\ Mounted("analytics")
    /\ ~isLoading
    /\ IF sortBy = field
       THEN /\ sortOrder' = (IF sortOrder = "asc" THEN "desc" ELSE "asc")
            /\ sortBy' = sortBy
       ELSE /\ sortBy' = field
            /\ sortOrder' = "desc"
    /\ filteredAndSortedEntries' \in
          ViewOutcomes(entries, searchQuery, sortBy', sortOrder')
    /\ Silent
    /\ UNCHANGED <<entries, searchQuery, isLoading, app>>

Next ==
    \/ isLoading /\ \E data \in ViewLists : loadEntriesOk(data)
    \/ loadEntriesNoUser
    \/ loadEntriesError
    \/ \E q \in Queries : setSearchQuery(q)
    \/ \E f \in SortFields : toggleSort(f)

Spec == Init /\ [][Next]_vars

----------------------------------------------------------------------------
(* Numbers and their display.  A number of the page is held in tenths: 70   *)
(* is 7.0.  A quotient is held exactly, as numerator and denominator.       *)

\* entries.reduce((sum, e) => sum + e[field], 0)
RECURSIVE SumOver(_, _)
SumOver(es, field) ==
    IF es = <<>> THEN 0
    ELSE SumOver(SubSeq(es, 1, Len(es) - 1), field) + es[Len(es)][field]

RECURSIVE Pow2Mod20(_)
Pow2Mod20(k) == IF k = 0 THEN 1 ELSE (2 * Pow2Mod20(k - 1)) % 20

\* the binary exponent e of m/20: 2^e <= m/20 < 2^(e+1), for 1 <= m < 2560
BinaryExponent(m) ==
    CHOOSE e \in (-5)..6 : 20 * 2^(e + 5) <= 32 * m /\ 32 * m < 20 * 2^(e + 6)

\* whether the double nearest to m/20 is m/20 or greater.  m/20 has a
\* 53-bit significand M = round(m * 2^(52 - e) / 20); the double lies above
\* m/20 when the remainder of that division is more than half of 20 and
\* below when it is less; an m/20 with m a multiple of 5 is a multiple of
\* 1/4 and is held exactly.
DoubleNotBelow(m) ==
    IF m % 5 = 0 THEN TRUE
    ELSE ((m % 20) * Pow2Mod20(52 - BinaryExponent(m))) % 20 > 10

\* a display that cuts the quotient off after the first decimal
ToFixed1_Truncating(num, den) ==
    LET t == (10 * num) \div den
    IN  <<t \div 10, t % 10>>

\* (num / den).toFixed(1) for num >= 0, den > 0: the text "i.f" as the pair
\* <<i, f>>.  toFixed takes the tenth nearest to the double that the
\* division produced, and the larger of two equally near ones.  The double
\* is within 2^-53 of num/den, so only a quotient exactly half-way between
\* two tenths (an odd multiple of 1/20) depends on where the double lies.
ToFixed1(num, den) ==
    LET t == (10 * num) \div den
        r == (10 * num) % den
        n == IF 2 * r < den THEN t
             ELSE IF 2 * r > den THEN t + 1
             ELSE IF DoubleNotBelow(2 * t + 1) THEN t + 1 ELSE t
    IN  <<n \div 10, n % 10>>

\* parseFloat of the text "i.f", in tenths
ParseFloat(text) == 10 * text[1] + text[2]

----------------------------------------------------------------------------
(* stats and getSuggestion *)

\* a summary without the check for the empty list
Stats_ZeroFilled(es) ==
    IF Len(es) = 0
    THEN [avgQuality |-> <<0, 0>>, avgSleep |-> <<0, 0>>,
          avgCaffeine |-> <<0, 0>>, avgStress |-> <<0, 0>>, total |-> 0]
    ELSE [avgQuality |-> ToFixed1(SumOver(es, "sleep_quality"), Len(es)),
          avgSleep |-> ToFixed1(SumOver(es, "sleep_hours"), 10 * Len(es)),
          avgCaffeine |-> ToFixed1(SumOver(es, "caffeine_intake"), Len(es)),
          avgStress |-> ToFixed1(SumOver(es, "stress_level"), Len(es)),
          total |-> Len(es)]

\* the stats useMemo; sleep_hours are tenths, so their mean is over 10 n
Stats(es) ==
    IF Len(es) = 0 THEN Null
    ELSE [avgQuality |-> ToFixed1(SumOver(es, "sleep_quality"), Len(es)),
          avgSleep |-> ToFixed1(SumOver(es, "sleep_hours"), 10 * Len(es)),
          avgCaffeine |-> ToFixed1(SumOver(es, "caffeine_intake"), Len(es)),
          avgStress |-> ToFixed1(SumOver(es, "stress_level"), Len(es)),
          total |-> Len(es)]

stats == Stats(entries)

StartMsg == "Start tracking your dreams to get personalized suggestions!"
SleepMsg == "Try to get more sleep - aim for 7-9 hours per night."
CaffeineMsg ==
    "Consider reducing caffeine intake, especially in the afternoon."
StressMsg ==
    "High stress levels detected. Try relaxation techniques before bed."
QualityMsg ==
    "Your sleep quality could improve. Try maintaining a consistent sleep schedule."
GreatMsg == "Great job! Your sleep patterns look healthy. Keep it up!"

\* the four conditions of getSuggestion, on the displayed averages
SleepRule(st) == ParseFloat(st.avgSleep) < 70
CaffeineRule(st) == ParseFloat(st.avgCaffeine) > 20
StressRule(st) == ParseFloat(st.avgStress) > 60
QualityRule(st) == ParseFloat(st.avgQuality) < 60

\* a join that puts the separator after every piece
RECURSIVE Join_TrailingSeparator(_, _)
Join_TrailingSeparator(pieces, sep) ==
    IF pieces = <<>> THEN <<>>
    ELSE <<pieces[1], sep>> \o Join_TrailingSeparator(Tail(pieces), sep)

\* suggestions.join(sep): a text is the sequence of its pieces
RECURSIVE Join(_, _)
Join(pieces, sep) ==
    IF pieces = <<>> THEN <<>>
    ELSE IF Len(pieces) = 1 THEN pieces
    ELSE <<pieces[1], sep>> \o Join(Tail(pieces), sep)

\* a getSuggestion without the message for "no rule fired"
GetSuggestion_NoFallback(st) ==
    IF st = Null THEN <<StartMsg>>
    ELSE LET s1 == IF SleepRule(st) THEN <<SleepMsg>> ELSE <<>>
             s2 == IF CaffeineRule(st) THEN s1 \o <<CaffeineMsg>> ELSE s1
             s3 == IF StressRule(st) THEN s2 \o <<StressMsg>> ELSE s2
             suggestions ==
                   IF QualityRule(st) THEN s3 \o <<QualityMsg>> ELSE s3
         IN  Join(suggestions, " ")

GetSuggestion(st) ==
    IF st = Null THEN <<StartMsg>>
    ELSE LET s1 == IF SleepRule(st) THEN <<SleepMsg>> ELSE <<>>
             s2 == IF CaffeineRule(st) THEN s1 \o <<CaffeineMsg>> ELSE s1
             s3 == IF StressRule(st) THEN s2 \o <<StressMsg>> ELSE s2
             suggestions ==
                   IF QualityRule(st) THEN s3 \o <<QualityMsg>> ELSE s3
         IN  IF Len(suggestions) = 0 THEN <<GreatMsg>>
             ELSE Join(suggestions, " ")

getSuggestion == GetSuggestion(stats)

----------------------------------------------------------------------------
(* chartData *)

\* the number of entries the chart keeps: slice(-7)
ChartWindow == 7

\* toLocaleDateString('en-US', {month: 'short', day: 'numeric'}): the day
\* of the year of the timestamp; the year and the time of day are dropped
DateLabel(created_at) == (GetTime(created_at) \div MsPerDay) % DaysPerYear

\* [...es].sort((a, b) => time(a) - time(b)): the comparator is consistent,
\* so the sort is the stable one: each entry goes behind the entries placed
\* so far whose time is not greater
RECURSIVE InsertByTime(_, _)
InsertByTime(sorted, e) ==
    IF sorted = <<>> THEN <<e>>
    ELSE IF GetTime(sorted[Len(sorted)].created_at) - GetTime(e.created_at) > 0
         THEN InsertByTime(SubSeq(sorted, 1, Len(sorted) - 1), e)
                  \o <<sorted[Len(sorted)]>>
         ELSE sorted \o <<e>>

RECURSIVE SortByTime(_)
SortByTime(es) ==
    IF es = <<>> THEN <<>>
    ELSE InsertByTime(SortByTime(SubSeq(es, 1, Len(es) - 1)), es[Len(es)])

\* s.slice(-k)
SliceLast(s, k) == SubSeq(s, IF Len(s) > k THEN Len(s) - k + 1 ELSE 1, Len(s))

ChartPoint(entry) ==
    [date |-> DateLabel(entry.created_at), quality |-> entry.sleep_quality,
     sleep |-> entry.sleep_hours, caffeine |-> entry.caffeine_intake,
     stress |-> entry.stress_level]

ChartData(es) ==
    LET window == SliceLast(SortByTime(es), ChartWindow)
    IN  [k \in DOMAIN window |-> ChartPoint(window[k])]

chartData == ChartData(entries)

----------------------------------------------------------------------------
(* The statistics and the chart on longer lists *)

\* entries on either side of each threshold of getSuggestion
StatTemplates ==
    { [title |-> <<"b">>, content |-> <<"b">>, mood |-> "none",
       sleep_hours |-> h, caffeine_intake |-> c, stress_level |-> s,
       sleep_quality |-> q] :
      h \in {65, 70}, c \in {2, 3}, s \in {6, 7}, q \in {5, 6} }

\* a store holding k rows of one kind inserted after n - k rows of another,
\* each a millisecond after the one before: newest first
StatList(A, B, n, k) ==
    [i \in 1..n |-> Row(IF i <= k THEN A ELSE B, n - i + 1, (n - i) * SubMs)]

StatLists ==
    { StatList(A, B, n, k) :
        A \in StatTemplates, B \in StatTemplates,
        n \in 0..MaxStatLen, k \in 0..MaxStatLen }

\* a row whose metrics tell its insertion time
TimedTemplate(at) ==
    [title |-> <<"b">>, content |-> <<"b">>, mood |-> "none",
     sleep_hours |-> 5 * (at % 20), caffeine_intake |-> at % 4,
     stress_level |-> at % 11, sleep_quality |-> 1 + (at % 10)]

\* stores of at most n such rows, newest first
RECURSIVE TimedLists(_)
TimedLists(n) ==
    IF n = 0 THEN {<<>>}
    ELSE LET shorter == TimedLists(n - 1)
         IN  shorter \cup
             { LET at == IF l = <<>> THEN 0 ELSE l[1].created_at + g
               IN  <<Row(TimedTemplate(at), Len(l) + 1, at)>> \o l :
               g \in Gaps, l \in { s \in shorter : Len(s) = n - 1 } }

ChartLists == TimedLists(MaxChartLen)

StatsNext ==
    \/ isLoading /\ \E data \in StatLists : loadEntriesOk(data)
    \/ loadEntriesNoUser
    \/ loadEntriesError

StatsSpec == Init /\ [][StatsNext]_vars

ChartNext ==
    \/ isLoading /\ \E data \in ChartLists : loadEntriesOk(data)
    \/ loadEntriesNoUser
    \/ loadEntriesError

ChartSpec == Init /\ [][ChartNext]_vars

----------------------------------------------------------------------------
(* The application.  A page lives while the App renders it; its state is   *)
(* made anew when it is mounted.  A handler that awaits a service is two   *)
(* steps: the call up to the first request, and the answer with all that   *)
(* follows it, one action for each way the answer can go.  A form is       *)
(* edited between the handlers of the page: an edit made while a request   *)
(* is in flight is not read by the handler, which holds the values of the  *)
(* render it was called in.  getUser gives the user of the session, or     *)
(* none: there is no session, or the auth service is not reached.          *)

analytics == <<entries, searchQuery, sortBy, sortOrder, isLoading,
               filteredAndSortedEntries>>

services == <<session, profiles, dream_entries, serial, lookups>>

\* message || fallback, for the message of an error
OrElse(message, fallback) == IF message = "" THEN fallback ELSE message

\* the messages an error of the auth service or of the store can carry
RelationMissing == "relation \"public.dream_entries\" does not exist"
AuthErrors == {"Invalid login credentials", ""}
StoreErrors == {RelationMissing, "permission denied", ""}

----------------------------------------------------------------------------
(* The store: the dream_entries table behind row level security *)

\* rows the model lets the store take in all
MaxSerial == 4

\* USING (auth.uid() = user_id): the rows a request of user uid reaches
Reach(rows, uid) == SelectSeq(rows, LAMBDA r : r.user_id = uid)

\* .eq('user_id', id)
EqUserId(rows, id) == SelectSeq(rows, LAMBDA r : r.user_id = id)

\* .order('created_at', {ascending: false}): the latest row first
RECURSIVE OrderByCreatedAtDesc(_)
OrderByCreatedAtDesc(rows) ==
    IF rows = <<>> THEN <<>>
    ELSE LET k == CHOOSE i \in DOMAIN rows :
                    \A j \in DOMAIN rows :
                        rows[j].created_at <= rows[i].created_at
             rest == [i \in 1..(Len(rows) - 1) |->
                        IF i < k THEN rows[i] ELSE rows[i + 1]]
         IN  <<rows[k]>> \o OrderByCreatedAtDesc(rest)

\* a select that gives the latest row alone
SelectAll_LatestOnly(rows, id, uid) ==
    SubSeq(OrderByCreatedAtDesc(EqUserId(Reach(rows, uid), id)), 1, 1)

\* from('dream_entries').select('*').eq('user_id', id).order(...), sent
\* with the session of user uid
SelectAll(rows, id, uid) == OrderByCreatedAtDesc(EqUserId(Reach(rows, uid), id))

\* from('dream_entries').select('*', {count: 'exact', head: true}).eq(...)
CountAll(rows, id, uid) == Len(EqUserId(Reach(rows, uid), id))

\* a delete that takes the rows of every user
DeleteAll_EveryUser(rows, id, uid) == <<>>

\* from('dream_entries').delete().eq('user_id', id): the rows that stay
DeleteAll(rows, id, uid) ==
    SelectSeq(rows, LAMBDA r : ~(r.user_id = uid /\ r.user_id = id))

\* WITH CHECK (auth.uid() = user_id)
InsertAllowed(entry, uid) == entry.user_id = uid

\* the CHECK constraints of the table dream_entries
CheckConstraints(entry) ==
    /\ entry.sleep_quality >= 1 /\ entry.sleep_quality <= 10
    /\ entry.mood = "none" \/ entry.mood \in {"great", "good", "neutral", "bad"}
    /\ entry.stress_level >= 0 /\ entry.stress_level <= 10

\* the row the store makes of an inserted entry, the n-th one: it gives
\* the id and, by NOW(), created_at, a tick after the row before
Stored(entry, n) == [Row(entry, n, n - 1) EXCEPT !.user_id = entry.user_id]

----------------------------------------------------------------------------
(* App.handleLogin and LoginPage *)

\* password.length < 6
MinPasswordLength == 6

Password(n) == [i \in 1..n |-> "p"]

\* what is typed into the fields of the login form
EmailInputs == { <<>>, EmailOf("u1"), EmailOf("u3") }
PasswordInputs ==
    { Password(0), Password(MinPasswordLength - 1),
      Password(MinPasswordLength) }
NameInputs == { <<>>, <<"n">> }

\* email.split('@')[0]
BeforeAt(email) ==
    LET ats == { i \in DOMAIN email : email[i] = "@" }
    IN  IF ats = {} THEN email
        ELSE SubSeq(email, 1, (CHOOSE i \in ats : \A j \in ats : i <= j) - 1)

\* App.handleLogin(email, name); the journal page is mounted
handleLogin(email, name) ==
    /\ currentUser' = [email |-> email, name |-> name]
    /\ isLoggedIn' = TRUE
    /\ currentPage' = "journal"

\* a field of the login form is set
SetLogin(field, v) ==
    /\ Mounted("login")
    /\ ~login.isLoading
    /\ login[field] # v
    /\ login' = [login EXCEPT ![field] = v]
    /\ Silent
    /\ UNCHANGED <<analytics, currentPage, isLoggedIn, currentUser, journal,
                   profile, services>>

setIsSignup(v) == SetLogin("isSignup", v)
setShowPassword(v) == SetLogin("showPassword", v)
setEmail(v) == SetLogin("email", v)
setPassword(v) == SetLogin("password", v)
setName(v) == SetLogin("name", v)

\* a handleSubmit without the check of the password length
handleSubmit_AnyPasswordLength ==
    /\ Mounted("login")
    /\ ~login.isLoading
    /\ IF \/ login.email = <<>>
          \/ login.password = <<>>
          \/ login.isSignup /\ login.name = <<>>
       THEN /\ Outputs(<<Toast("error", "Please fill in all fields")>>,
                       <<>>, NoFile)
            /\ UNCHANGED login
       ELSE /\ login' = [login EXCEPT !.isLoading = TRUE,
                                      !.submitting = @ + 1]
            /\ Outputs(<<>>,
                       <<Request("auth",
                                 IF login.isSignup THEN "signUp"
                                 ELSE "signInWithPassword", "")>>,
                       NoFile)
    /\ UNCHANGED <<analytics, currentPage, isLoggedIn, currentUser, journal,
                   profile, services>>

\* handleSubmit up to the request to the auth service
handleSubmit ==
    /\ Mounted("login")
    /\ ~login.isLoading
    /\ IF \/ login.email = <<>>
          \/ login.password = <<>>
          \/ login.isSignup /\ login.name = <<>>
       THEN /\ Outputs(<<Toast("error", "Please fill in all fields")>>,
                       <<>>, NoFile)
            /\ UNCHANGED login
       ELSE IF Len(login.password) < MinPasswordLength
       THEN /\ Outputs(<<Toast("error",
                               "Password must be at least 6 characters")>>,
                       <<>>, NoFile)
            /\ UNCHANGED login
       ELSE /\ login' = [login EXCEPT !.isLoading = TRUE,
                                      !.submitting = @ + 1]
            /\ Outputs(<<>>,
                       <<Request("auth",
                                 IF login.isSignup THEN "signUp"
                                 ELSE "signInWithPassword", "")>>,
                       NoFile)
    /\ UNCHANGED <<analytics, currentPage, isLoggedIn, currentUser, journal,
                   profile, services>>

\* handleSubmit, the auth service answering with an error
handleSubmitError(message) ==
    /\ Mounted("login")
    /\ login.submitting > 0
    /\ ~login.testing
    /\ login' = [login EXCEPT !.isLoading = FALSE, !.submitting = @ - 1]
    /\ Outputs(<<Toast("error", OrElse(message, "An error occurred"))>>,
               <<>>, NoFile)
    /\ UNCHANGED <<analytics, currentPage, isLoggedIn, currentUser, journal,
                   profile, services>>

\* handleSubmit, the auth service answering without an error and without a
\* user: nothing but the finally block runs
handleSubmitNoUser ==
    /\ Mounted("login")
    /\ login.submitting > 0
    /\ ~login.testing
    /\ login' = [login EXCEPT !.isLoading = FALSE, !.submitting = @ - 1]
    /\ Silent
    /\ UNCHANGED <<analytics, currentPage, isLoggedIn, currentUser, journal,
                   profile, services>>

\* handleSubmit, signUp answering with the new user u: the trigger
\* on_auth_user_created has made the profile row; the answer carries a
\* session unless the address is to be confirmed first
handleSubmitSignedUp(u, confirmed) ==
    /\ Mounted("login")
    /\ login.submitting > 0
    /\ ~login.testing
    /\ login.isSignup
    /\ EmailOf(u) = login.email
    /\ u \notin DOMAIN profiles
    /\ profiles' =
          [v \in DOMAIN profiles \cup {u} |->
             IF v = u THEN handle_new_user(login.email, login.name)
             ELSE profiles[v]]
    /\ session' = IF confirmed THEN u ELSE session
    /\ handleLogin(login.email, login.name)
    /\ login' = LoginPage0
    /\ Outputs(<<Toast("success", "Account created successfully!")>>,
               <<>>, NoFile)
    /\ UNCHANGED <<analytics, journal, profile, dream_entries, serial,
                   lookups>>

\* handleSubmit, signInWithPassword answering with the user u; found says
\* whether the profile lookup that follows gave the row
handleSubmitSignedIn(u, found) ==
    /\ Mounted("login")
    /\ login.submitting > 0
    /\ ~login.testing
    /\ ~login.isSignup
    /\ EmailOf(u) = login.email
    /\ u \in DOMAIN profiles
    /\ session' = u
    /\ handleLogin(login.email,
                   IF found /\ profiles[u].name # <<>> THEN profiles[u].name
                   ELSE BeforeAt(login.email))
    /\ login' = LoginPage0
    /\ Outputs(<<Toast("success", "Welcome back!")>>,
               <<Request("profiles", "select", u)>>, NoFile)
    /\ UNCHANGED <<analytics, journal, profile, profiles, dream_entries,
                   serial, lookups>>

\* the test account: 'test@dreamtracker.com' with 'testpass123', and the
\* name handleTestLogin shows when the profile gives none
TestUser == "u1"
TestPassword == Password(11)
TestUserName == <<"Test User">>

\* handleTestLogin up to the request to the auth service; the button is
\* there while the form is that of the login
handleTestLogin ==
    /\ Mounted("login")
    /\ ~login.isLoading
    /\ ~login.isSignup
    /\ login' = [login EXCEPT !.email = EmailOf(TestUser),
                              !.password = TestPassword,
                              !.isLoading = TRUE,
                              !.testing = TRUE,
                              !.submitting = @ + 1]
    /\ Outputs(<<>>, <<Request("auth", "signInWithPassword", "")>>, NoFile)
    /\ UNCHANGED <<analytics, currentPage, isLoggedIn, currentUser, journal,
                   profile, services>>

\* handleTestLogin, the auth service answering with an error
handleTestLoginError ==
    /\ Mounted("login")
    /\ login.submitting > 0
    /\ login.testing
    /\ login' = [login EXCEPT !.isLoading = FALSE, !.testing = FALSE,
                              !.submitting = @ - 1]
    /\ Outputs(<<Toast("error",
                       "Test account not set up yet. Please create it in Supabase Dashboard.")>>,
               <<>>, NoFile)
    /\ UNCHANGED <<analytics, currentPage, isLoggedIn, currentUser, journal,
                   profile, services>>

\* handleTestLogin, the auth service answering without an error and
\* without a user: nothing but the finally block runs
handleTestLoginNoUser ==
    /\ Mounted("login")
    /\ login.submitting > 0
    /\ login.testing
    /\ login' = [login EXCEPT !.isLoading = FALSE, !.testing = FALSE,
                              !.submitting = @ - 1]
    /\ Silent
    /\ UNCHANGED <<analytics, currentPage, isLoggedIn, currentUser, journal,
                   profile, services>>

\* handleTestLogin, signInWithPassword answering with the user of the test
\* account; found says whether the profile lookup that follows gave the row
handleTestLoginSignedIn(found) ==
    /\ Mounted("login")
    /\ login.submitting > 0
    /\ login.testing
    /\ TestUser \in DOMAIN profiles
    /\ session' = TestUser
    /\ handleLogin(EmailOf(TestUser),
                   IF found /\ profiles[TestUser].name # <<>>
                   THEN profiles[TestUser].name
                   ELSE TestUserName)
    /\ login' = LoginPage0
    /\ Outputs(<<Toast("success", "Logged in with test account!")>>,
               <<Request("profiles", "select", TestUser)>>, NoFile)
    /\ UNCHANGED <<analytics, journal, profile, profiles, dream_entries,
                   serial, lookups>>

----------------------------------------------------------------------------
(* JournalPage *)

\* what is typed into the text fields, and where the sliders and buttons
\* are put: the value of the mounted page and one other
TitleInputs == { <<>>, <<"b", "\"">> }
ContentInputs == { <<>>, <<"\\", "A">> }
SleepHoursInputs == {70, 5}
CaffeineInputs == {0, 10}
QualityInputs == {5, 1}
MoodInputs == {"good"}
StressInputs == {5, 0}

\* the sleep hours slider (min 0, max 12, step 0.5), in tenths: its ends,
\* its first step and the value of a new form
SleepHoursSlider == {0, 5, 70, 120}
\* the caffeine slider (min 0, max 10, step 1): its ends
CaffeineSlider == {0, 10}
\* a row of quality buttons that starts at 0
QualityButtons_FromZero == {0, 5, 10}
\* the quality buttons [...Array(10)] with i + 1: the first, the one of a
\* new form and the last
QualityButtons == {1, 5, 10}
\* the values of moodOptions
MoodOptions == {"great", "good", "neutral", "bad"}
\* the stress slider (min 0, max 10, step 1): its ends and the value of a
\* new form
StressSlider == {0, 5, 10}

\* fields of the journal form the model lets differ from the mounted form
\* at a time
MaxTouched == 3

Touched(form) ==
    Cardinality({ f \in DOMAIN JournalPage0 : form[f] # JournalPage0[f] })

\* a field of the journal form is set
SetJournal(field, v) ==
    /\ Mounted("journal")
    /\ ~journal.isLoading
    /\ journal[field] # v
    /\ Touched([journal EXCEPT ![field] = v]) <= MaxTouched
    /\ journal' = [journal EXCEPT ![field] = v]
    /\ Silent
    /\ UNCHANGED <<analytics, currentPage, isLoggedIn, currentUser, login,
                   profile, services>>

setDreamTitle(v) == SetJournal("dreamTitle", v)
setDreamContent(v) == SetJournal("dreamContent", v)
setSleepHours(v) == SetJournal("sleepHours", v)
setCaffeineIntake(v) == SetJournal("caffeineIntake", v)
setSleepQuality(v) == SetJournal("sleepQuality", v)
setMood(v) == SetJournal("mood", v)
setStressLevel(v) == SetJournal("stressLevel", v)

\* the entry handleSaveEntry builds for the user getUser gave
Entry(user) ==
    [user_id |-> user, title |-> journal.dreamTitle,
     content |-> journal.dreamContent, sleep_hours |-> journal.sleepHours,
     caffeine_intake |-> journal.caffeineIntake,
     sleep_quality |-> journal.sleepQuality, mood |-> journal.mood,
     stress_level |-> journal.stressLevel]

\* a handleSaveEntry behind a button that is not disabled while the flag
\* is set
handleSaveEntry_ButtonEnabled ==
    /\ Mounted("journal")
    /\ journal.saving < 2
    /\ IF journal.dreamTitle = <<>> \/ journal.dreamContent = <<>>
       THEN /\ Outputs(<<Toast("error",
                               "Please fill in dream title and content")>>,
                       <<>>, NoFile)
            /\ UNCHANGED journal
       ELSE /\ journal' = [journal EXCEPT !.isLoading = TRUE,
                                          !.saving = @ + 1]
            /\ Outputs(<<>>, <<GetUser>>, NoFile)
    /\ UNCHANGED <<analytics, currentPage, isLoggedIn, currentUser, login,
                   profile, services>>

\* handleSaveEntry up to the call of getUser; the button is disabled
\* while the flag is set
handleSaveEntry ==
    /\ Mounted("journal")
    /\ ~journal.isLoading
    /\ IF journal.dreamTitle = <<>> \/ journal.dreamContent = <<>>
       THEN /\ Outputs(<<Toast("error",
                               "Please fill in dream title and content")>>,
                       <<>>, NoFile)
            /\ UNCHANGED journal
       ELSE /\ journal' = [journal EXCEPT !.isLoading = TRUE,
                                          !.saving = @ + 1]
            /\ Outputs(<<>>, <<GetUser>>, NoFile)
    /\ UNCHANGED <<analytics, currentPage, isLoggedIn, currentUser, login,
                   profile, services>>

\* a handleSaveEntry that returns without clearing the flag when getUser
\* gives no user
handleSaveEntryNoUser_KeepsFlag ==
    /\ Mounted("journal")
    /\ journal.saving > 0
    /\ journal' = [journal EXCEPT !.saving = @ - 1]
    /\ Outputs(<<Toast("error", "You must be logged in to save entries")>>,
               <<>>, NoFile)
    /\ UNCHANGED <<analytics, currentPage, isLoggedIn, currentUser, login,
                   profile, services>>

\* handleSaveEntry, getUser giving no user
handleSaveEntryNoUser ==
    /\ Mounted("journal")
    /\ journal.saving > 0
    /\ journal' = [journal EXCEPT !.isLoading = FALSE, !.saving = @ - 1]
    /\ Outputs(<<Toast("error", "You must be logged in to save entries")>>,
               <<>>, NoFile)
    /\ UNCHANGED <<analytics, currentPage, isLoggedIn, currentUser, login,
                   profile, services>>

\* handleSaveEntry, the insert answered with an error
handleSaveEntryError(message) ==
    /\ Mounted("journal")
    /\ journal.saving > 0
    /\ session # NullUser
    /\ journal' = [journal EXCEPT !.isLoading = FALSE, !.saving = @ - 1]
    /\ Outputs(<<Toast("error",
                       IF message = RelationMissing
                       THEN "Database not set up. Please run the SQL queries in Supabase first."
                       ELSE OrElse(message, "Failed to save entry"))>>,
               <<Request("dream_entries", "insert", Entry(session).user_id)>>,
               NoFile)
    /\ UNCHANGED <<analytics, currentPage, isLoggedIn, currentUser, login,
                   profile, services>>

\* the columns of an entry that come from the form
SameContent(a, b) ==
    \A c \in {"title", "content", "sleep_hours", "caffeine_intake",
               "sleep_quality", "mood", "stress_level"} : a[c] = b[c]

\* a handleSaveEntry whose insert adds no row when the user has a row of
\* the same content
handleSaveEntryOk_SkipsDuplicate ==
    /\ Mounted("journal")
    /\ journal.saving > 0
    /\ session # NullUser
    /\ serial < MaxSerial
    /\ InsertAllowed(Entry(session), session)
    /\ CheckConstraints(Entry(session))
    /\ IF \E i \in DOMAIN dream_entries :
             /\ dream_entries[i].user_id = session
             /\ SameContent(dream_entries[i], Entry(session))
       THEN UNCHANGED <<dream_entries, serial>>
       ELSE /\ dream_entries' =
                  Append(dream_entries, Stored(Entry(session), serial + 1))
            /\ serial' = serial + 1
    /\ journal' = [JournalPage0 EXCEPT !.saving = journal.saving - 1]
    /\ Outputs(<<Toast("success", "Dream journal entry saved!")>>,
               <<Request("dream_entries", "insert", Entry(session).user_id)>>,
               NoFile)
    /\ UNCHANGED <<analytics, currentPage, isLoggedIn, currentUser, login,
                   profile, session, profiles, lookups>>

\* a handleSaveEntry that keeps the form after the insert
handleSaveEntryOk_KeepsForm ==
    /\ Mounted("journal")
    /\ journal.saving > 0
    /\ session # NullUser
    /\ serial < MaxSerial
    /\ InsertAllowed(Entry(session), session)
    /\ CheckConstraints(Entry(session))
    /\ dream_entries' =
          Append(dream_entries, Stored(Entry(session), serial + 1))
    /\ serial' = serial + 1
    /\ journal' = [journal EXCEPT !.isLoading = FALSE, !.saving = @ - 1]
    /\ Outputs(<<Toast("success", "Dream journal entry saved!")>>,
               <<Request("dream_entries", "insert", Entry(session).user_id)>>,
               NoFile)
    /\ UNCHANGED <<analytics, currentPage, isLoggedIn, currentUser, login,
                   profile, session, profiles, lookups>>

\* a handleSaveEntry whose insert takes the place of the latest row
handleSaveEntryOk_ReplacesLatest ==
    /\ Mounted("journal")
    /\ journal.saving > 0
    /\ session # NullUser
    /\ serial < MaxSerial
    /\ InsertAllowed(Entry(session), session)
    /\ CheckConstraints(Entry(session))
    /\ dream_entries' =
          Append(SubSeq(dream_entries, 1, Len(dream_entries) - 1),
                 Stored(Entry(session), serial + 1))
    /\ serial' = serial + 1
    /\ journal' = [JournalPage0 EXCEPT !.saving = journal.saving - 1]
    /\ Outputs(<<Toast("success", "Dream journal entry saved!")>>,
               <<Request("dream_entries", "insert", Entry(session).user_id)>>,
               NoFile)
    /\ UNCHANGED <<analytics, currentPage, isLoggedIn, currentUser, login,
                   profile, session, profiles, lookups>>

\* handleSaveEntry, the insert answered with the stored row: the form is
\* reset
handleSaveEntryOk ==
    /\ Mounted("journal")
    /\ journal.saving > 0
    /\ session # NullUser
    /\ serial < MaxSerial
    /\ InsertAllowed(Entry(session), session)
    /\ CheckConstraints(Entry(session))
    /\ dream_entries' =
          Append(dream_entries, Stored(Entry(session), serial + 1))
    /\ serial' = serial + 1
    /\ journal' = [JournalPage0 EXCEPT !.saving = journal.saving - 1]
    /\ Outputs(<<Toast("success", "Dream journal entry saved!")>>,
               <<Request("dream_entries", "insert", Entry(session).user_id)>>,
               NoFile)
    /\ UNCHANGED <<analytics, currentPage, isLoggedIn, currentUser, login,
                   profile, session, profiles, lookups>>

----------------------------------------------------------------------------
(* JSON.stringify(entries, null, 2).  A JSON text is a sequence of pieces: *)
(* a piece is one character, or the name of a column or a word that is     *)
(* written without any escape.                                             *)

\* a value of a fetched row as JavaScript holds it: a string, a number
\* (kept in tenths) or null
JsString(text) == [type |-> "string", text |-> text, tenths |-> 0]
JsNumber(tenths) == [type |-> "number", text |-> <<>>, tenths |-> tenths]
JsNull == [type |-> "null", text |-> <<>>, tenths |-> 0]

DigitChars == <<"0", "1", "2", "3", "4", "5", "6", "7", "8", "9">>

\* the decimal digits of a natural number
RECURSIVE Digits(_)
Digits(n) ==
    IF n < 10 THEN <<DigitChars[n + 1]>>
    ELSE Digits(n \div 10) \o <<DigitChars[(n % 10) + 1]>>

\* the columns of a row, in the order of the table
Columns ==
    <<"id", "user_id", "title", "content", "sleep_hours", "caffeine_intake",
      "sleep_quality", "mood", "stress_level", "created_at">>

\* a row as the client receives it: the uuid and the timestamp are strings
\* (here the digits of the row number and of the tick), the texts are
\* strings, the metrics numbers, a mood that is not set null
Fetched(row) ==
    [c \in { Columns[i] : i \in DOMAIN Columns } |->
        IF c = "id" THEN JsString(Digits(row.id))
        ELSE IF c = "user_id" THEN JsString(<<row.user_id>>)
        ELSE IF c = "title" THEN JsString(row.title)
        ELSE IF c = "content" THEN JsString(row.content)
        ELSE IF c = "sleep_hours" THEN JsNumber(row.sleep_hours)
        ELSE IF c = "mood"
             THEN IF row.mood = "none" THEN JsNull ELSE JsString(<<row.mood>>)
        ELSE IF c = "created_at" THEN JsString(Digits(row.created_at))
        ELSE JsNumber(10 * row[c])]

FetchedList(rows) == [i \in DOMAIN rows |-> Fetched(rows[i])]

\* a string literal that leaves the quotation mark and the backslash as
\* they are
Quote_NoEscape(text) == <<"\"">> \o text \o <<"\"">>

\* the characters of a string literal: the quotation mark and the backslash
\* are written behind a backslash
RECURSIVE Escaped(_)
Escaped(text) ==
    IF text = <<>> THEN <<>>
    ELSE (IF text[1] \in {"\"", "\\"} THEN <<"\\", text[1]>> ELSE <<text[1]>>)
         \o Escaped(Tail(text))

\* a string literal
Quote(text) == <<"\"">> \o Escaped(text) \o <<"\"">>

\* Number::toString of a number with at most one decimal
NumberText(tenths) ==
    Digits(tenths \div 10)
    \o (IF tenths % 10 = 0 THEN <<>> ELSE <<".", DigitChars[(tenths % 10) + 1]>>)

StringifyValue(v) ==
    IF v.type = "string" THEN Quote(v.text)
    ELSE IF v.type = "number" THEN NumberText(v.tenths)
    ELSE <<"null">>

\* a line break and the indentation of depth d, two blanks for each level
Indent(d) == <<"\n">> \o [i \in 1..(2 * d) |-> " "]

\* the members of an object from the k-th column on, at depth 2
RECURSIVE StringifyMembers(_, _)
StringifyMembers(obj, k) ==
    IF k > Len(Columns) THEN <<>>
    ELSE Indent(2) \o Quote(<<Columns[k]>>) \o <<":", " ">>
         \o StringifyValue(obj[Columns[k]])
         \o (IF k < Len(Columns) THEN <<",">> ELSE <<>>)
         \o StringifyMembers(obj, k + 1)

StringifyObject(obj) == <<"{">> \o StringifyMembers(obj, 1) \o Indent(1) \o <<"}">>

\* the elements of an array from the k-th on, at depth 1
RECURSIVE StringifyElements(_, _)
StringifyElements(list, k) ==
    IF k > Len(list) THEN <<>>
    ELSE Indent(1) \o StringifyObject(list[k])
         \o (IF k < Len(list) THEN <<",">> ELSE <<>>)
         \o StringifyElements(list, k + 1)

\* JSON.stringify(list, null, 2) of a list of rows
Stringify(list) ==
    IF list = <<>> THEN <<"[", "]">>
    ELSE <<"[">> \o StringifyElements(list, 1) \o Indent(0) \o <<"]">>

----------------------------------------------------------------------------
(* ProfilePage *)

\* handleSaveProfile calls the model lets be in flight at a time
MaxSaving == 2

\* what is typed into the fields of the profile form
ProfileNameInputs == { <<>>, <<"m">> }
ProfileEmailInputs == { <<>>, <<"m", "@", "x">> }

\* new Date().toISOString().split('T')[0] on the day of the model
Dates == {"2025-01-01"}

\* a field of the profile form is set
SetProfile(field, v) ==
    /\ Mounted("profile")
    /\ profile.saving = 0
    /\ profile[field] # v
    /\ profile' = [profile EXCEPT ![field] = v]
    /\ Silent
    /\ UNCHANGED <<analytics, currentPage, isLoggedIn, currentUser, login,
                   journal, services>>

setProfileName(v) == SetProfile("name", v)
setProfileEmail(v) == SetProfile("email", v)

\* loadEntryCount, getUser giving no user: it returns
loadEntryCountNoUser ==
    /\ Mounted("profile")
    /\ profile.counting
    /\ profile.counted = NotCounted
    /\ profile' = [profile EXCEPT !.counting = FALSE]
    /\ Silent
    /\ UNCHANGED <<analytics, currentPage, isLoggedIn, currentUser, login,
                   journal, services>>

\* loadEntryCount, the count answered with an error: it is logged
loadEntryCountError ==
    /\ Mounted("profile")
    /\ profile.counting
    /\ profile.counted = NotCounted
    /\ session # NullUser
    /\ profile' = [profile EXCEPT !.counting = FALSE]
    /\ Outputs(<<>>, <<Request("dream_entries", "count", session)>>, NoFile)
    /\ UNCHANGED <<analytics, currentPage, isLoggedIn, currentUser, login,
                   journal, services>>

\* loadEntryCount, the store counting the rows: the answer is on its way
loadEntryCountCounted ==
    /\ Mounted("profile")
    /\ profile.counting
    /\ profile.counted = NotCounted
    /\ session # NullUser
    /\ profile' = [profile EXCEPT
                     !.counted = CountAll(dream_entries, session, session)]
    /\ Outputs(<<>>, <<Request("dream_entries", "count", session)>>, NoFile)
    /\ UNCHANGED <<analytics, currentPage, isLoggedIn, currentUser, login,
                   journal, services>>

\* loadEntryCount, the answer with the count handled: setEntryCount
loadEntryCountOk ==
    /\ Mounted("profile")
    /\ profile.counting
    /\ profile.counted # NotCounted
    /\ profile' = [profile EXCEPT
                     !.counting = FALSE,
                     !.counted = NotCounted,
                     !.entryCount = profile.counted]
    /\ Silent
    /\ UNCHANGED <<analytics, currentPage, isLoggedIn, currentUser, login,
                   journal, services>>

\* handleSaveProfile up to the call of getUser
handleSaveProfile ==
    /\ Mounted("profile")
    /\ profile.saving < MaxSaving
    /\ IF profile.name = <<>> \/ profile.email = <<>>
       THEN /\ Outputs(<<Toast("error", "Please fill in all fields")>>,
                       <<>>, NoFile)
            /\ UNCHANGED profile
       ELSE /\ profile' = [profile EXCEPT !.isLoading = TRUE,
                                          !.saving = @ + 1]
            /\ Outputs(<<>>, <<GetUser>>, NoFile)
    /\ UNCHANGED <<analytics, currentPage, isLoggedIn, currentUser, login,
                   journal, services>>

\* handleSaveProfile, getUser giving no user
handleSaveProfileNoUser ==
    /\ Mounted("profile")
    /\ profile.saving > 0
    /\ profile' = [profile EXCEPT !.isLoading = FALSE, !.saving = @ - 1]
    /\ Outputs(<<Toast("error", "You must be logged in")>>, <<>>, NoFile)
    /\ UNCHANGED <<analytics, currentPage, isLoggedIn, currentUser, login,
                   journal, services>>

\* handleSaveProfile, the update answered with an error
handleSaveProfileError(message) ==
    /\ Mounted("profile")
    /\ profile.saving > 0
    /\ session # NullUser
    /\ profile' = [profile EXCEPT !.isLoading = FALSE, !.saving = @ - 1]
    /\ Outputs(<<Toast("error", OrElse(message, "Failed to update profile"))>>,
               <<Request("profiles", "update", session)>>, NoFile)
    /\ UNCHANGED <<analytics, currentPage, isLoggedIn, currentUser, login,
                   journal, services>>

\* handleSaveProfile, the update answered without an error
handleSaveProfileOk ==
    /\ Mounted("profile")
    /\ profile.saving > 0
    /\ session # NullUser
    /\ profiles' =
          [u \in DOMAIN profiles |->
             IF u = session
             THEN [name |-> profile.name, email |-> profile.email]
             ELSE profiles[u]]
    /\ profile' = [profile EXCEPT !.isLoading = FALSE, !.saving = @ - 1]
    /\ Outputs(<<Toast("success", "Profile updated successfully!")>>,
               <<Request("profiles", "update", session)>>, NoFile)
    /\ UNCHANGED <<analytics, currentPage, isLoggedIn, currentUser, login,
                   journal, session, dream_entries, serial, lookups>>

\* handleExportData, getUser giving no user
handleExportDataNoUser ==
    /\ Mounted("profile")
    /\ Outputs(<<Toast("error", "You must be logged in")>>, <<GetUser>>,
               NoFile)
    /\ UNCHANGED <<analytics, currentPage, isLoggedIn, currentUser, login,
                   journal, profile, services>>

\* handleExportData, the select answered with an error
handleExportDataError(message) ==
    /\ Mounted("profile")
    /\ session # NullUser
    /\ Outputs(<<Toast("error", OrElse(message, "Failed to export data"))>>,
               <<GetUser, Request("dream_entries", "select", session)>>,
               NoFile)
    /\ UNCHANGED <<analytics, currentPage, isLoggedIn, currentUser, login,
                   journal, profile, services>>

\* handleExportData, the select answered with no row
handleExportDataEmpty ==
    /\ Mounted("profile")
    /\ session # NullUser
    /\ SelectAll(dream_entries, session, session) = <<>>
    /\ Outputs(<<Toast("error", "No data to export")>>,
               <<GetUser, Request("dream_entries", "select", session)>>,
               NoFile)
    /\ UNCHANGED <<analytics, currentPage, isLoggedIn, currentUser, login,
                   journal, profile, services>>

\* handleExportData, the select answered with rows: the file is saved
handleExportDataOk(today) ==
    /\ Mounted("profile")
    /\ session # NullUser
    /\ SelectAll(dream_entries, session, session) # <<>>
    /\ Outputs(<<Toast("success", "Data exported successfully!")>>,
               <<GetUser, Request("dream_entries", "select", session)>>,
               [name |-> <<"dreamtracker-backup-", today, ".json">>,
                contents |->
                   Stringify(FetchedList(
                       SelectAll(dream_entries, session, session)))])
    /\ UNCHANGED <<analytics, currentPage, isLoggedIn, currentUser, login,
                   journal, profile, services>>

\* handleClearData, getUser giving no user
handleClearDataNoUser ==
    /\ Mounted("profile")
    /\ Outputs(<<Toast("error", "You must be logged in")>>, <<GetUser>>,
               NoFile)
    /\ UNCHANGED <<analytics, currentPage, isLoggedIn, currentUser, login,
                   journal, profile, services>>

\* handleClearData, the delete answered with an error
handleClearDataError(message) ==
    /\ Mounted("profile")
    /\ session # NullUser
    /\ Outputs(<<Toast("error", OrElse(message, "Failed to clear data"))>>,
               <<GetUser, Request("dream_entries", "delete", session)>>,
               NoFile)
    /\ UNCHANGED <<analytics, currentPage, isLoggedIn, currentUser, login,
                   journal, profile, services>>

\* handleClearData, the delete answered without an error
handleClearDataOk ==
    /\ Mounted("profile")
    /\ session # NullUser
    /\ dream_entries' = DeleteAll(dream_entries, session, session)
    /\ profile' = [profile EXCEPT !.entryCount = 0]
    /\ Outputs(<<Toast("success", "All data cleared successfully")>>,
               <<GetUser, Request("dream_entries", "delete", session)>>,
               NoFile)
    /\ UNCHANGED <<analytics, currentPage, isLoggedIn, currentUser, login,
                   journal, session, profiles, serial, lookups>>

----------------------------------------------------------------------------
(* The application with one of its pages mounted *)

\* rows saved before: two of user u1, the first with a quotation mark and a
\* backslash in its texts, and between them one of user u2
Seeds ==
    << Stored([user_id |-> "u1", title |-> <<"b", "\"">>,
               content |-> <<"\\", "A">>, sleep_hours |-> 70,
               caffeine_intake |-> 0, sleep_quality |-> 5, mood |-> "none",
               stress_level |-> 5], 1),
       Stored([user_id |-> "u2", title |-> <<"c">>, content |-> <<"d">>,
               sleep_hours |-> 65, caffeine_intake |-> 2,
               sleep_quality |-> 3, mood |-> "bad", stress_level |-> 7], 2),
       Stored([user_id |-> "u1", title |-> <<"e">>, content |-> <<"f">>,
               sleep_hours |-> 80, caffeine_intake |-> 1,
               sleep_quality |-> 4, mood |-> "good", stress_level |-> 2], 3) >>

\* the App with users u1 and u2 registered and their rows in the store:
\* just constructed, nobody logged in; or showing user u1 a page just
\* mounted, with the session of u1 or with none left
AppInit ==
    /\ AnalyticsPage0
    /\ login = LoginPage0
    /\ journal = JournalPage0
    /\ profiles = ProfileRows
    /\ dream_entries = Seeds
    /\ serial = Len(Seeds)
    /\ lookups = {}
    /\ toasts = <<>>
    /\ download = NoFile
    /\ \/ /\ currentPage = "login"
          /\ isLoggedIn = FALSE
          /\ currentUser = Null
          /\ profile = ProfilePage0(Null)
          /\ session = NullUser
          /\ requests = <<Request("auth", "getSession", "")>>
       \/ /\ currentPage \in Pages
          /\ isLoggedIn = TRUE
          /\ currentUser = [email |-> EmailOf("u1"), name |-> NameOf("u1")]
          /\ profile = ProfilePage0(IF currentPage = "profile"
                                    THEN currentUser ELSE Null)
          /\ session \in {"u1", NullUser}
          /\ requests = IF currentPage = "journal" THEN <<>> ELSE <<GetUser>>

AppNext ==
    \/ \E v \in BOOLEAN : setIsSignup(v)
    \/ \E v \in BOOLEAN : setShowPassword(v)
    \/ \E v \in EmailInputs : setEmail(v)
    \/ \E v \in PasswordInputs : setPassword(v)
    \/ \E v \in NameInputs : setName(v)
    \/ handleSubmit
    \/ \E m \in AuthErrors : handleSubmitError(m)
    \/ handleSubmitNoUser
    \/ \E u \in Users, c \in BOOLEAN : handleSubmitSignedUp(u, c)
    \/ \E u \in Users, f \in BOOLEAN : handleSubmitSignedIn(u, f)
    \/ handleTestLogin
    \/ handleTestLoginError
    \/ handleTestLoginNoUser
    \/ \E f \in BOOLEAN : handleTestLoginSignedIn(f)
    \/ \E v \in TitleInputs : setDreamTitle(v)
    \/ \E v \in ContentInputs : setDreamContent(v)
    \/ \E v \in SleepHoursInputs : setSleepHours(v)
    \/ \E v \in CaffeineInputs : setCaffeineIntake(v)
    \/ \E v \in QualityInputs : setSleepQuality(v)
    \/ \E v \in MoodInputs : setMood(v)
    \/ \E v \in StressInputs : setStressLevel(v)
    \/ handleSaveEntry
    \/ handleSaveEntryNoUser
    \/ \E m \in StoreErrors : handleSaveEntryError(m)
    \/ handleSaveEntryOk
    \/ loadEntriesOk(SelectAll(dream_entries, session, session))
    \/ loadEntriesNoUser
    \/ loadEntriesError
    \/ \E q \in Queries : setSearchQuery(q)
    \/ \E f \in SortFields : toggleSort(f)
    \/ \E v \in ProfileNameInputs : setProfileName(v)
    \/ \E v \in ProfileEmailInputs : setProfileEmail(v)
    \/ loadEntryCountNoUser
    \/ loadEntryCountError
    \/ loadEntryCountCounted
    \/ loadEntryCountOk
    \/ handleSaveProfile
    \/ handleSaveProfileNoUser
    \/ \E m \in StoreErrors : handleSaveProfileError(m)
    \/ handleSaveProfileOk
    \/ handleExportDataNoUser
    \/ \E m \in StoreErrors : handleExportDataError(m)
    \/ handleExportDataEmpty
    \/ \E today \in Dates : handleExportDataOk(today)
    \/ handleClearDataNoUser
    \/ \E m \in StoreErrors : handleClearDataError(m)
    \/ handleClearDataOk

AppSpec == AppInit /\ [][AppNext]_vars

\* the journal page just mounted for user u1, with the session of u1 or
\* with none left; the store has taken in all rows but one of those the
\* model lets it take, and holds the rows of Seeds
JournalInit ==
    /\ AnalyticsPage0
    /\ currentPage = "journal"
    /\ isLoggedIn = TRUE
    /\ currentUser = [email |-> EmailOf("u1"), name |-> NameOf("u1")]
    /\ login = LoginPage0
    /\ journal = JournalPage0
    /\ profile = ProfilePage0(Null)
    /\ session \in {"u1", NullUser}
    /\ profiles = ProfileRows
    /\ dream_entries = Seeds
    /\ serial = MaxSerial - 1
    /\ lookups = {}
    /\ toasts = <<>>
    /\ requests = <<>>
    /\ download = NoFile

\* the journal page with every control of its form
JournalNext ==
    \/ \E v \in TitleInputs : setDreamTitle(v)
    \/ \E v \in ContentInputs : setDreamContent(v)
    \/ \E v \in SleepHoursSlider : setSleepHours(v)
    \/ \E v \in CaffeineSlider : setCaffeineIntake(v)
    \/ \E v \in QualityButtons : setSleepQuality(v)
    \/ \E v \in MoodOptions : setMood(v)
    \/ \E v \in StressSlider : setStressLevel(v)
    \/ handleSaveEntry
    \/ handleSaveEntryNoUser
    \/ \E m \in StoreErrors : handleSaveEntryError(m)
    \/ handleSaveEntryOk

JournalSpec == JournalInit /\ [][JournalNext]_vars

----------------------------------------------------------------------------
(* App: navigation, logout and the session *)

\* loadUserProfile calls the model lets wait for their answer at a time
MaxLookups == 1

\* the analytics page takes its useState values again: it is unmounted, or
\* mounted anew
AnalyticsPageMounts ==
    /\ entries' = <<>>
    /\ searchQuery' = <<>>
    /\ sortBy' = "created_at"
    /\ sortOrder' = "desc"
    /\ isLoading' = TRUE
    /\ filteredAndSortedEntries' = <<>>

\* the App renders another page: the pages that were there are unmounted
\* and page is mounted for the currentUser cu.  A request of an unmounted
\* page that is not answered yet is left out: its answer changes no state
\* of the App
PageMounts(page, cu) ==
    /\ AnalyticsPageMounts
    /\ login' = LoginPage0
    /\ journal' = JournalPage0
    /\ profile' = ProfilePage0(IF page = "profile" THEN cu ELSE Null)

\* the requests the effects of a page send when it is mounted: the
\* getUser of loadEntries and of loadEntryCount
MountRequests(page) ==
    IF page \in {"analytics", "profile"} THEN <<GetUser>> ELSE <<>>

\* an onNavigate that leaves the page as it is while the analytics page
\* is shown
onNavigate_KeepsAnalytics(page) ==
    /\ isLoggedIn
    /\ page # currentPage
    /\ currentPage' = page
    /\ IF currentPage = "analytics" \/ page = "analytics"
       THEN UNCHANGED <<analytics, login, journal, profile>>
       ELSE PageMounts(page, currentUser)
    /\ Outputs(<<>>, MountRequests(page), NoFile)
    /\ UNCHANGED <<isLoggedIn, currentUser, services>>

\* a button of the Navigation is clicked: onNavigate(item.id), which is
\* setCurrentPage
onNavigate(page) ==
    /\ isLoggedIn
    /\ page # currentPage
    /\ currentPage' = page
    /\ PageMounts(page, currentUser)
    /\ Outputs(<<>>, MountRequests(page), NoFile)
    /\ UNCHANGED <<isLoggedIn, currentUser, services>>

\* a handleLogout that leaves the page as it is
handleLogout_KeepsPage ==
    /\ isLoggedIn
    /\ session' = NullUser
    /\ isLoggedIn' = FALSE
    /\ currentUser' = Null
    /\ PageMounts("login", Null)
    /\ Outputs(<<>>, <<Request("auth", "signOut", "")>>, NoFile)
    /\ UNCHANGED <<currentPage, profiles, dream_entries, serial, lookups>>

\* the logout button is clicked: App.handleLogout, with signOut answered
handleLogout ==
    /\ isLoggedIn
    /\ session' = NullUser
    /\ isLoggedIn' = FALSE
    /\ currentUser' = Null
    /\ currentPage' = "login"
    /\ PageMounts("login", Null)
    /\ Outputs(<<>>, <<Request("auth", "signOut", "")>>, NoFile)
    /\ UNCHANGED <<profiles, dream_entries, serial, lookups>>

\* the callback of onAuthStateChange, and that of getSession, with a
\* session: loadUserProfile is called and sends its lookup
onAuthStateChangeSession ==
    /\ session # NullUser
    /\ session \notin lookups
    /\ Cardinality(lookups) < MaxLookups
    /\ lookups' = lookups \cup {session}
    /\ Outputs(<<>>, <<Request("profiles", "select", session)>>, NoFile)
    /\ UNCHANGED <<analytics, currentPage, isLoggedIn, currentUser, login,
                   journal, profile, session, profiles, dream_entries,
                   serial>>

\* the callback of onAuthStateChange without a session
onAuthStateChangeNoSession ==
    /\ session = NullUser
    /\ isLoggedIn' = FALSE
    /\ currentUser' = Null
    /\ currentPage' = "login"
    /\ IF isLoggedIn THEN PageMounts("login", Null)
       ELSE UNCHANGED <<analytics, login, journal, profile>>
    /\ Silent
    /\ UNCHANGED services

\* App.loadUserProfile for user u, its lookup answered; found says whether
\* it gave the row.  The answers of the login page are taken first
loadUserProfile(u, found) ==
    /\ u \in lookups
    /\ ~login.isLoading
    /\ lookups' = lookups \ {u}
    /\ currentUser' =
          [email |-> EmailOf(u),
           name |-> IF found /\ u \in DOMAIN profiles
                             /\ profiles[u].name # <<>>
                    THEN profiles[u].name
                    ELSE BeforeAt(EmailOf(u))]
    /\ isLoggedIn' = TRUE
    /\ currentPage' = "journal"
    /\ IF Mounted("journal")
       THEN UNCHANGED <<analytics, login, journal, profile>>
       ELSE PageMounts("journal", currentUser')
    /\ Silent
    /\ UNCHANGED <<session, profiles, dream_entries, serial>>

\* rows saved before the App is opened: one of user u1 and one of user u2
SessionSeeds == SubSeq(Seeds, 1, 2)

\* the App just constructed: the login page, nobody logged in, and the
\* auth service with no session or with the session of an earlier visit
SessionInit ==
    /\ AnalyticsPage0
    /\ currentPage = "login"
    /\ isLoggedIn = FALSE
    /\ currentUser = Null
    /\ login = LoginPage0
    /\ journal = JournalPage0
    /\ profile = ProfilePage0(Null)
    /\ session \in {NullUser, TestUser}
    /\ profiles = ProfileRows
    /\ dream_entries = SessionSeeds
    /\ serial = Len(SessionSeeds)
    /\ lookups = {}
    /\ toasts = <<>>
    /\ requests = <<Request("auth", "getSession", "")>>
    /\ download = NoFile

\* the App with the test login, the navigation, the logout and the
\* notifications of the auth service; on the pages a dream is saved, the
\* entries are loaded and counted and all data is cleared
SessionNext ==
    \/ handleTestLogin
    \/ handleTestLoginError
    \/ handleTestLoginNoUser
    \/ \E f \in BOOLEAN : handleTestLoginSignedIn(f)
    \/ onAuthStateChangeSession
    \/ onAuthStateChangeNoSession
    \/ \E u \in Users, f \in BOOLEAN : loadUserProfile(u, f)
    \/ \E page \in Pages : onNavigate(page)
    \/ handleLogout
    \/ \E v \in TitleInputs : setDreamTitle(v)
    \/ \E v \in ContentInputs : setDreamContent(v)
    \/ handleSaveEntry
    \/ handleSaveEntryNoUser
    \/ \E m \in StoreErrors : handleSaveEntryError(m)
    \/ handleSaveEntryOk
    \/ loadEntriesOk(SelectAll(dream_entries, session, session))
    \/ loadEntriesNoUser
    \/ loadEntriesError
    \/ loadEntryCountNoUser
    \/ loadEntryCountError
    \/ loadEntryCountCounted
    \/ loadEntryCountOk
    \/ handleClearDataOk

SessionSpec == SessionInit /\ [][SessionNext]_vars

----------------------------------------------------------------------------
(* Filter and sort: properties *)

Range(s) == { s[i] : i \in DOMAIN s }

Count(s, e) == Cardinality({ i \in DOMAIN s : s[i] = e })

\* two letters that differ at most in case (simple case folding)
Fold(c) ==
    IF c = "A" THEN "a"
    ELSE IF c \in {"SIGMA", "fsigma"} THEN "sigma"
    ELSE c

ContainsIgnoringCase(s, q) ==
    \E p \in 0..(Len(s) - Len(q)) :
        \A j \in 1..Len(q) : Fold(s[p + j]) = Fold(q[j])

EntryContains(e, q) ==
    \/ ContainsIgnoringCase(e.title, q)
    \/ ContainsIgnoringCase(e.content, q)

\* the list the page displays
view == filteredAndSortedEntries

\* C1: the view holds exactly the loaded entries whose title or content
\* contains the search query as a case-insensitive substring: every entry of
\* the view is a loaded entry that contains it, and every loaded entry left
\* out of the view does not contain it.
C1_ViewIsExactlyTheMatches ==
    /\ \A k \in DOMAIN view :
          view[k] \in Range(entries) /\ EntryContains(view[k], searchQuery)
    /\ \A i \in DOMAIN entries :
          entries[i] \notin Range(view)
              => ~EntryContains(entries[i], searchQuery)

\* The half of C1 that holds on every list: each entry of the view is a
\* loaded entry that contains the search query ignoring case.
ViewEntriesMatch ==
    \A k \in DOMAIN view :
        view[k] \in Range(entries) /\ EntryContains(view[k], searchQuery)

\* C2: with the empty query the view is a permutation of the loaded list:
\* the same length, and every entry as often in the view as in the list.
C2_EmptyQueryPermutation ==
    searchQuery = <<>> =>
        /\ Len(view) = Len(entries)
        /\ \A e \in Range(entries) \cup Range(view) :
              Count(view, e) = Count(entries, e)

C2_Witness ==
    /\ searchQuery = <<>>
    /\ Len(entries) >= 2
    /\ sortBy = "sleep_hours"
    /\ sortOrder = "asc"
    /\ view # entries

\* the sort key as a number: created_at as the Date's timestamp value
KeyOf(e, by) ==
    CASE by = "created_at" -> GetTime(e.created_at)
      [] by = "sleep_quality" -> e.sleep_quality
      [] by = "sleep_hours" -> e.sleep_hours

\* C3: the view is ordered by the sort key, ascending with order asc and
\* descending with order desc, entries with equal keys included.
C3_ViewOrdered ==
    \A k \in 1..(Len(view) - 1) :
        IF sortOrder = "asc"
        THEN KeyOf(view[k], sortBy) <= KeyOf(view[k + 1], sortBy)
        ELSE KeyOf(view[k], sortBy) >= KeyOf(view[k + 1], sortBy)

C3_Witness ==
    /\ Len(view) >= 3
    /\ sortBy = "sleep_quality"
    /\ sortOrder = "asc"
    /\ KeyOf(view[1], sortBy) < KeyOf(view[2], sortBy)
    /\ KeyOf(view[2], sortBy) = KeyOf(view[3], sortBy)

\* what toggleSort(f) is to do to the sort state
ToggleEffect(f) ==
    IF f = sortBy
    THEN sortBy' = sortBy /\ sortOrder' # sortOrder /\ sortOrder' \in SortOrders
    ELSE sortBy' = f /\ sortOrder' = "desc"

\* C4: the sort state starts as (created_at, desc); toggleSort on the
\* current key flips the order and keeps the key, toggleSort on another
\* field selects that field with order desc.
C4_ToggleSort ==
    /\ sortBy = "created_at" /\ sortOrder = "desc"
    /\ [][\A f \in SortFields : ToggleEffect(f) \/ ~toggleSort(f)]_vars

C4_Witness ==
    /\ sortBy = "sleep_hours"
    /\ sortOrder = "asc"
    /\ entries # <<>>

\* what the page derives from a loaded list es alone: the summary, the
\* suggestion and the chart window
Derived(es) == <<Stats(es), GetSuggestion(Stats(es)), ChartData(es)>>

\* C11: a change of the search query or a toggleSort call leaves the loaded
\* entry list as it was, contents and order, and with it the summary, the
\* suggestion and the chart window; so they are the same after any sequence
\* of such calls.
C11_ViewLeavesEntries ==
    [][\/ entries' = entries /\ Derived(entries') = Derived(entries)
       \/ ~ \/ \E q \in Queries : setSearchQuery(q)
            \/ \E f \in SortFields : toggleSort(f)]_vars

\* a filtered, re-sorted view of a list that is still whole and in store
\* order
C11_Witness ==
    /\ ~isLoading
    /\ Len(entries) = 3
    /\ searchQuery # <<>>
    /\ sortBy = "sleep_hours"
    /\ Len(view) = 1
    /\ \A i \in 1..2 : entries[i].created_at > entries[i + 1].created_at
    /\ stats.total = 3

\* no two entries of the list are equal on the key the comparator reads
NoKeyTies(es, by) ==
    \A i, j \in DOMAIN es : i # j => SortVal(es[i], by) # SortVal(es[j], by)

\* C12: for a loaded list without two entries equal on the sort key, a
\* toggleSort on the current key followed by another one gives back the
\* sort state and the displayed sequence of entries: the first call sets the
\* state toggleSort computes, the second call computes the state before the
\* first, and that state has one view only, the one displayed before.
C12_DoubleToggleRestores ==
    [][\A f \in SortFields :
          \/ ~(f = sortBy /\ NoKeyTies(entries, f))
          \/ ~toggleSort(f)
          \/ LET once == SortStateAfter(sortBy, sortOrder, f)
                 twice == SortStateAfter(once[1], once[2], f)
             IN  /\ <<sortBy', sortOrder'>> = once
                 /\ once # <<sortBy, sortOrder>>
                 /\ twice = <<sortBy, sortOrder>>
                 /\ ViewOutcomes(entries', searchQuery', twice[1], twice[2])
                        = {view}]_vars

\* between the two calls: three entries without ties, shown oldest first
C12_Witness ==
    /\ ~isLoading
    /\ Len(entries) = 3
    /\ sortBy = "created_at"
    /\ sortOrder = "asc"
    /\ NoKeyTies(entries, "created_at")
    /\ searchQuery = <<>>
    /\ view = <<entries[3], entries[2], entries[1]>>

----------------------------------------------------------------------------
(* Statistics, suggestion and chart: properties *)

\* the sum of a field over the loaded entries
RECURSIVE TotalFrom(_, _)
TotalFrom(field, i) ==
    IF i > Len(entries) THEN 0
    ELSE entries[i][field] + TotalFrom(field, i + 1)

Total(field) == TotalFrom(field, 1)

\* C5: the summary is absent exactly when no entry is loaded, and the total
\* of a present summary is the number of loaded entries.
C5_SummaryAbsentIffEmpty ==
    /\ (stats = Null) <=> (entries = <<>>)
    /\ entries # <<>> => stats.total = Len(entries)

C5_Witness ==
    /\ ~isLoading
    /\ Len(entries) = 2
    /\ stats # Null
    /\ stats.total = 2

\* the text is a one-decimal number and no tenth is nearer to num / den
NearestTenth(text, num, den) ==
    /\ text[1] >= 0
    /\ text[2] \in 0..9
    /\ LET diff == den * ParseFloat(text) - 10 * num
       IN  2 * (IF diff < 0 THEN -diff ELSE diff) <= den

\* C6: each reported average is the sum of its field over the loaded
\* entries divided by their number, rounded to one decimal place (a tenth
\* nearest to the quotient).
C6_AveragesRounded ==
    entries # <<>> =>
        /\ NearestTenth(stats.avgQuality,
                        Total("sleep_quality"), Len(entries))
        /\ NearestTenth(stats.avgSleep,
                        Total("sleep_hours"), 10 * Len(entries))
        /\ NearestTenth(stats.avgCaffeine,
                        Total("caffeine_intake"), Len(entries))
        /\ NearestTenth(stats.avgStress,
                        Total("stress_level"), Len(entries))

\* ten entries averaging 6.85 hours: half-way between 6.8 and 6.9
C6_Witness ==
    /\ Len(entries) = 10
    /\ Total("sleep_hours") = 685
    /\ stats.avgSleep = <<6, 8>>
    /\ Total("sleep_quality") = 57
    /\ stats.avgQuality = <<5, 7>>

InSuggestion(msg) == msg \in Range(getSuggestion)

\* C7: each message is in the suggestion exactly when the arithmetic mean
\* of its field meets the rule: sleep_hours < 7, caffeine_intake > 2,
\* stress_level > 6, sleep_quality < 6.
C7_RulesOnTheMean ==
    entries # <<>> =>
        /\ InSuggestion(SleepMsg)
              <=> Total("sleep_hours") < 70 * Len(entries)
        /\ InSuggestion(CaffeineMsg)
              <=> Total("caffeine_intake") > 2 * Len(entries)
        /\ InSuggestion(StressMsg)
              <=> Total("stress_level") > 6 * Len(entries)
        /\ InSuggestion(QualityMsg)
              <=> Total("sleep_quality") < 6 * Len(entries)

\* What holds in place of C7: each message is in the suggestion exactly
\* when the displayed (rounded) average meets the rule.
RulesOnTheDisplayedAverages ==
    entries # <<>> =>
        /\ InSuggestion(SleepMsg) <=> ParseFloat(stats.avgSleep) < 70
        /\ InSuggestion(CaffeineMsg) <=> ParseFloat(stats.avgCaffeine) > 20
        /\ InSuggestion(StressMsg) <=> ParseFloat(stats.avgStress) > 60
        /\ InSuggestion(QualityMsg) <=> ParseFloat(stats.avgQuality) < 60

RuleMsgs == <<SleepMsg, CaffeineMsg, StressMsg, QualityMsg>>

\* the rules that fire on a summary, by their place in the fixed order
Fired(st) ==
    { r \in 1..4 : <<SleepRule(st), CaffeineRule(st),
                     StressRule(st), QualityRule(st)>>[r] }

\* the k-th rule of F in the fixed order
NthOf(F, k) == CHOOSE r \in F : Cardinality({ x \in F : x < r }) = k - 1

\* each of the 15 non-empty sets of rules fires on some single entry
EveryRuleSetFires ==
    \A F \in (SUBSET (1..4)) \ {{}} :
        \E t \in StatTemplates : Fired(Stats(<<Row(t, 1, 0)>>)) = F

\* C8: when a rule fires, the suggestion is the messages of the fired rules
\* in the fixed order, each once, with one space between two of them and
\* nothing else; and each of the 15 non-empty sets of rules fires on some
\* entry list.
C8_SuggestionIsJoinedMessages ==
    LET fired == Fired(stats)
        text == getSuggestion
    IN  /\ (entries # <<>> /\ fired # {}) =>
              /\ Len(text) = 2 * Cardinality(fired) - 1
              /\ \A p \in 1..Len(text) :
                    text[p] = IF p % 2 = 0 THEN " "
                              ELSE RuleMsgs[NthOf(fired, (p + 1) \div 2)]
        /\ EveryRuleSetFires

C8_Witness ==
    /\ entries # <<>>
    /\ Fired(stats) = {1, 3, 4}
    /\ getSuggestion = <<SleepMsg, " ", StressMsg, " ", QualityMsg>>

\* C9: the suggestion is never the empty text: it is the start-tracking
\* prompt when no entry is loaded and the positive message when entries are
\* loaded and no rule fires (on the displayed averages, and so on the
\* means); the two messages and the four rule messages are six different
\* texts.
C9_SuggestionNeverEmpty ==
    LET text == getSuggestion
    IN  /\ text # <<>>
        /\ \A p \in DOMAIN text : text[p] # ""
        /\ entries = <<>> => text = <<StartMsg>>
        /\ (entries # <<>> /\ Fired(stats) = {}) => text = <<GreatMsg>>
        /\ ( /\ entries # <<>>
             /\ Total("sleep_hours") >= 70 * Len(entries)
             /\ Total("caffeine_intake") <= 2 * Len(entries)
             /\ Total("stress_level") <= 6 * Len(entries)
             /\ Total("sleep_quality") >= 6 * Len(entries) )
           => text = <<GreatMsg>>
        /\ Cardinality({StartMsg, GreatMsg} \cup Range(RuleMsgs)) = 6

C9_Witness ==
    /\ Len(entries) = 3
    /\ Fired(stats) = {}
    /\ getSuggestion = <<GreatMsg>>

Min(a, b) == IF a < b THEN a ELSE b

\* the loaded entries that fewer than ChartWindow loaded entries are newer
\* than
Latest ==
    { e \in Range(entries) :
        Cardinality({ f \in Range(entries) : f.created_at > e.created_at })
            < ChartWindow }

\* the k-th oldest of them
NthOldest(k) ==
    CHOOSE e \in Latest :
        Cardinality({ f \in Latest : f.created_at < e.created_at }) = k - 1

\* C10: for loaded entries with distinct created_at values the chart has
\* min(7, n) points, which are the points of the min(7, n) entries with the
\* latest created_at, oldest first.
C10_ChartWindow ==
    (\A i, j \in DOMAIN entries :
        i # j => entries[i].created_at # entries[j].created_at)
    => /\ Len(chartData) = Min(ChartWindow, Len(entries))
       /\ \A k \in DOMAIN chartData :
             chartData[k] = ChartPoint(NthOldest(k))

\* What holds in place of C10: the same, for loaded entries no two of which
\* were created within the same millisecond.
ChartWindowAtDateResolution ==
    (\A i, j \in DOMAIN entries :
        i # j => GetTime(entries[i].created_at) # GetTime(entries[j].created_at))
    => /\ Len(chartData) = Min(ChartWindow, Len(entries))
       /\ \A k \in DOMAIN chartData :
             chartData[k] = ChartPoint(NthOldest(k))

----------------------------------------------------------------------------
(* The export: properties.  JSON.parse of a text of pieces, for the texts   *)
(* of lists of rows: a parse gives the value read and the position behind  *)
(* it, or fails.                                                           *)

NoParse == [ok |-> FALSE, val |-> <<>>, next |-> 0]
Parsed(v, n) == [ok |-> TRUE, val |-> v, next |-> n]

RECURSIVE SkipBlanks(_, _)
SkipBlanks(t, i) ==
    IF i <= Len(t) /\ t[i] \in {" ", "\n"} THEN SkipBlanks(t, i + 1) ELSE i

IsDigit(t, i) ==
    i <= Len(t) /\ \E d \in DOMAIN DigitChars : DigitChars[d] = t[i]

DigitValue(c) == (CHOOSE d \in DOMAIN DigitChars : DigitChars[d] = c) - 1

\* the characters of a string literal from position i up to the quotation
\* mark that closes it; behind a backslash stands a quotation mark or a
\* backslash
RECURSIVE ParseChars(_, _)
ParseChars(t, i) ==
    IF i > Len(t) \/ t[i] = "\n" THEN NoParse
    ELSE IF t[i] = "\"" THEN Parsed(<<>>, i + 1)
    ELSE IF t[i] = "\\"
    THEN IF i + 1 > Len(t) \/ t[i + 1] \notin {"\"", "\\"} THEN NoParse
         ELSE LET r == ParseChars(t, i + 2)
              IN  IF r.ok THEN Parsed(<<t[i + 1]>> \o r.val, r.next)
                  ELSE NoParse
    ELSE LET r == ParseChars(t, i + 1)
         IN  IF r.ok THEN Parsed(<<t[i]>> \o r.val, r.next) ELSE NoParse

ParseString(t, i) ==
    IF i <= Len(t) /\ t[i] = "\"" THEN ParseChars(t, i + 1) ELSE NoParse

RECURSIVE ParseDigits(_, _, _)
ParseDigits(t, i, n) ==
    IF IsDigit(t, i) THEN ParseDigits(t, i + 1, 10 * n + DigitValue(t[i]))
    ELSE Parsed(n, i)

\* a number with at most one decimal
ParseNumber(t, i) ==
    IF ~IsDigit(t, i) THEN NoParse
    ELSE LET w == ParseDigits(t, i, 0)
         IN  IF w.next <= Len(t) /\ t[w.next] = "."
             THEN IF IsDigit(t, w.next + 1) /\ ~IsDigit(t, w.next + 2)
                  THEN Parsed(JsNumber(10 * w.val + DigitValue(t[w.next + 1])),
                              w.next + 2)
                  ELSE NoParse
             ELSE Parsed(JsNumber(10 * w.val), w.next)

ParseValue(t, i) ==
    IF i > Len(t) THEN NoParse
    ELSE IF t[i] = "\""
    THEN LET r == ParseString(t, i)
         IN  IF r.ok THEN Parsed(JsString(r.val), r.next) ELSE NoParse
    ELSE IF t[i] = "null" THEN Parsed(JsNull, i + 1)
    ELSE ParseNumber(t, i)

\* the members of an object from position i up to the closing brace; of two
\* members of one name the later one stays
RECURSIVE ParseMembers(_, _)
ParseMembers(t, i) ==
    LET k == ParseString(t, SkipBlanks(t, i))
        c == SkipBlanks(t, k.next)
        v == ParseValue(t, SkipBlanks(t, c + 1))
        e == SkipBlanks(t, v.next)
    IN  IF ~k.ok \/ Len(k.val) # 1 THEN NoParse
        ELSE IF c > Len(t) \/ t[c] # ":" THEN NoParse
        ELSE IF ~v.ok \/ e > Len(t) THEN NoParse
        ELSE IF t[e] = "}" THEN Parsed(k.val[1] :> v.val, e + 1)
        ELSE IF t[e] = ","
        THEN LET r == ParseMembers(t, e + 1)
             IN  IF r.ok THEN Parsed(r.val @@ (k.val[1] :> v.val), r.next)
                 ELSE NoParse
        ELSE NoParse

ParseObject(t, i) ==
    IF i > Len(t) \/ t[i] # "{" THEN NoParse
    ELSE LET j == SkipBlanks(t, i + 1)
         IN  IF j <= Len(t) /\ t[j] = "}" THEN Parsed(<<>>, j + 1)
             ELSE ParseMembers(t, j)

\* the elements of an array of objects from position i up to the closing
\* bracket
RECURSIVE ParseElements(_, _)
ParseElements(t, i) ==
    LET o == ParseObject(t, SkipBlanks(t, i))
        e == SkipBlanks(t, o.next)
    IN  IF ~o.ok \/ e > Len(t) THEN NoParse
        ELSE IF t[e] = "]" THEN Parsed(<<o.val>>, e + 1)
        ELSE IF t[e] = ","
        THEN LET r == ParseElements(t, e + 1)
             IN  IF r.ok THEN Parsed(<<o.val>> \o r.val, r.next) ELSE NoParse
        ELSE NoParse

\* JSON.parse(t) of a text that is to hold an array of objects
Parse(t) ==
    LET i == SkipBlanks(t, 1)
    IN  IF i > Len(t) \/ t[i] # "[" THEN NoParse
        ELSE LET j == SkipBlanks(t, i + 1)
                 r == IF j <= Len(t) /\ t[j] = "]" THEN Parsed(<<>>, j + 1)
                      ELSE ParseElements(t, j)
             IN  IF r.ok /\ SkipBlanks(t, r.next) = Len(t) + 1 THEN r
                 ELSE NoParse

\* C13: whenever the export has written a file, the parse of its contents
\* is the list the select-all for the current user gave in that export,
\* entry for entry, field for field and in the same order.
C13_ExportRoundTrip ==
    download # NoFile =>
        LET parsed == Parse(download.contents)
        IN  /\ parsed.ok
            /\ parsed.val =
                  FetchedList(SelectAll(dream_entries, session, session))

\* a file of two entries is written, a quotation mark in it behind a
\* backslash
C13_Witness ==
    /\ download # NoFile
    /\ Len(SelectAll(dream_entries, session, session)) = 2
    /\ \E i \in DOMAIN download.contents :
          /\ i < Len(download.contents)
          /\ download.contents[i] = "\\"
          /\ download.contents[i + 1] = "\""

----------------------------------------------------------------------------
(* The forms and the requests: properties *)

\* C14: a submission that fails the validation of its form (login or
\* sign-up with an empty email or password, sign-up with an empty name, a
\* password of fewer than 6 characters; create-entry with an empty title or
\* content; update-profile with an empty name or email) sends no request,
\* shows an error notification, and leaves the form fields, the loading
\* flag and all other page state as they were.
C14_ValidationRejects ==
    [][\/ /\ requests' = <<>>
          /\ Len(toasts') = 1
          /\ toasts'[1].kind = "error"
          /\ download' = NoFile
          /\ UNCHANGED <<analytics, app>>
       \/ ~ \/ /\ Mounted("login")
               /\ \/ login.email = <<>>
                  \/ login.password = <<>>
                  \/ login.isSignup /\ login.name = <<>>
                  \/ Len(login.password) < 6
               /\ handleSubmit
            \/ /\ Mounted("journal")
               /\ journal.dreamTitle = <<>> \/ journal.dreamContent = <<>>
               /\ handleSaveEntry
            \/ /\ Mounted("profile")
               /\ profile.name = <<>> \/ profile.email = <<>>
               /\ handleSaveProfile]_vars

\* a sign-up with all fields filled in and a password of 5 characters has
\* been rejected
C14_Witness ==
    /\ Mounted("login")
    /\ login.isSignup
    /\ login.email # <<>>
    /\ login.name # <<>>
    /\ Len(login.password) = 5
    /\ ~login.isLoading
    /\ toasts = <<Toast("error", "Password must be at least 6 characters")>>
    /\ requests = <<>>

\* the requests among sent that go to a table
StoreRequests(sent) ==
    { i \in DOMAIN sent : sent[i].to \in {"dream_entries", "profiles"} }

\* a step in which the auth service reports no current user to one of the
\* operations that need one
NoUserStep ==
    \/ handleSaveEntryNoUser
    \/ loadEntriesNoUser
    \/ loadEntryCountNoUser
    \/ handleSaveProfileNoUser
    \/ handleExportDataNoUser
    \/ handleClearDataNoUser

\* C15: each of create-entry, load-entries, load-entry-count,
\* update-profile, export and delete-all, when the auth service reports no
\* current user, ends without a request to the entry store or the profile
\* store and shows a notification.
C15_NoUserNotified ==
    [][\/ /\ StoreRequests(requests') = {}
          /\ toasts' # <<>>
       \/ ~NoUserStep]_vars

\* What holds in place of C15: each of the six ends without a request to a
\* table and without a change in the store; create-entry, update-profile,
\* export and delete-all show one error notification.
NoUserStopsBeforeTheStore ==
    [][\/ /\ StoreRequests(requests') = {}
          /\ UNCHANGED services
          /\ \/ loadEntriesNoUser
             \/ loadEntryCountNoUser
             \/ Len(toasts') = 1 /\ toasts'[1].kind = "error"
       \/ ~NoUserStep]_vars

\* a step in which the auth service or a table answers a workflow with an
\* error
FailureStep ==
    \/ \E m \in AuthErrors : handleSubmitError(m)
    \/ \E m \in StoreErrors : handleSaveEntryError(m)
    \/ loadEntriesError
    \/ \E m \in StoreErrors : handleSaveProfileError(m)
    \/ \E m \in StoreErrors : handleExportDataError(m)
    \/ \E m \in StoreErrors : handleClearDataError(m)

\* a step in which a workflow is answered without an error
SuccessStep ==
    \/ \E u \in Users, c \in BOOLEAN : handleSubmitSignedUp(u, c)
    \/ \E u \in Users : handleSubmitSignedIn(u, TRUE)
    \/ handleSaveEntryOk
    \/ loadEntriesOk(SelectAll(dream_entries, session, session))
    \/ handleSaveProfileOk
    \/ handleExportDataEmpty
    \/ \E today \in Dates : handleExportDataOk(today)
    \/ handleClearDataOk

\* C16: in login/sign-up, create-entry, load-entries, update-profile,
\* export and delete-all, an answer with a failure shows an error
\* notification and an answer with success a success notification; no
\* failure passes without a notification.
C16_OutcomeNotified ==
    [][/\ \/ Len(toasts') = 1 /\ toasts'[1].kind = "error"
          \/ ~FailureStep
       /\ \/ Len(toasts') = 1 /\ toasts'[1].kind = "success"
          \/ ~SuccessStep]_vars

\* What holds in place of C16: the same for the workflows that write
\* (login/sign-up, create-entry, update-profile, delete-all) and for the
\* export of a list that is not empty.
WritesAreNotified ==
    [][/\ \/ Len(toasts') = 1 /\ toasts'[1].kind = "error"
          \/ loadEntriesError
          \/ ~FailureStep
       /\ \/ Len(toasts') = 1 /\ toasts'[1].kind = "success"
          \/ loadEntriesOk(SelectAll(dream_entries, session, session))
          \/ handleExportDataEmpty
          \/ ~SuccessStep]_vars

\* the rows of user u in the store
RowsOf(rows, u) == { rows[i] : i \in { j \in DOMAIN rows : rows[j].user_id = u } }

\* C17: every request the client sends to the entry store carries the id
\* of the user authenticated at the time: an inserted entry has it as
\* user_id, a select, count or delete filters on it.  With rows of several
\* users in the store no step gives the client, creates or deletes a row of
\* another user, and delete-all leaves the rows of the others as they are.
C17_OwnRowsOnly ==
    [][/\ \A i \in DOMAIN requests' :
             requests'[i].to = "dream_entries" =>
                 session # NullUser /\ requests'[i].user_id = session
       /\ \A u \in Users \ {session} :
             RowsOf(dream_entries', u) = RowsOf(dream_entries, u)
       /\ \/ entries' = entries
          \/ \A i \in DOMAIN entries' : entries'[i].user_id = session
       /\ \/ download' = NoFile
          \/ \A i \in DOMAIN Parse(download'.contents).val :
                Parse(download'.contents).val[i]["user_id"]
                    = JsString(<<session>>)
       /\ \/ profile'.counted \in {profile.counted, NotCounted}
          \/ profile'.counted = Cardinality(RowsOf(dream_entries, session))
       /\ \/ profile'.entryCount = profile.entryCount
          \/ profile'.entryCount \in {0, profile.counted}]_vars

\* user u1 has deleted all entries in a store that held rows of u1 and of
\* u2: the rows of u2 are there, none of u1
C17_Witness ==
    /\ session = "u1"
    /\ toasts = <<Toast("success", "All data cleared successfully")>>
    /\ requests = <<GetUser, Request("dream_entries", "delete", "u1")>>
    /\ RowsOf(dream_entries, "u1") = {}
    /\ RowsOf(dream_entries, "u2") = RowsOf(Seeds, "u2")
    /\ RowsOf(Seeds, "u2") # {}
    /\ RowsOf(Seeds, "u1") # {}

\* a step of the export in which the select-all is answered without an
\* error
ExportSelected ==
    \/ handleExportDataEmpty
    \/ \E today \in Dates : handleExportDataOk(today)

\* the file holds the JSON text of all rows of the current user, each once
FullListWritten ==
    /\ download' # NoFile
    /\ download'.contents =
          Stringify(FetchedList(SelectAll(dream_entries, session, session)))
    /\ Len(SelectAll(dream_entries, session, session))
          = Cardinality(RowsOf(dream_entries, session))
    /\ \A r \in RowsOf(dream_entries, session) :
          \E i \in DOMAIN SelectAll(dream_entries, session, session) :
              SelectAll(dream_entries, session, session)[i] = r

SaveEntryFails ==
    \/ /\ journal.dreamTitle = <<>> \/ journal.dreamContent = <<>>
       /\ handleSaveEntry
    \/ handleSaveEntryNoUser
    \/ \E m \in StoreErrors : handleSaveEntryError(m)

\* C19: a create-entry that passes the validation and succeeds at the store
\* adds exactly one row, also when a row of the same content is there
\* already; one that is rejected or fails adds none; and no workflow sends
\* a request again after a failure.
C19_OneRowPerSave ==
    [][/\ \/ /\ Len(dream_entries') = Len(dream_entries) + 1
             /\ SubSeq(dream_entries', 1, Len(dream_entries)) = dream_entries
             /\ SameContent(dream_entries'[Len(dream_entries')],
                            Entry(session))
             /\ Cardinality(StoreRequests(requests')) = 1
          \/ ~handleSaveEntryOk
       /\ \/ dream_entries' = dream_entries
          \/ ~SaveEntryFails
       /\ \/ /\ Cardinality(StoreRequests(requests')) <= 1
             /\ UNCHANGED services
             /\ Mounted("login") => ~login'.isLoading
             /\ Mounted("journal") => ~journal'.isLoading
             /\ Mounted("analytics") => ~isLoading'
             /\ Mounted("profile") => profile'.saving <= profile.saving
          \/ ~(FailureStep \/ SaveEntryFails)]_vars

\* user u1 has saved an entry with the content of the first row once more:
\* the store holds both rows
C19_Witness ==
    /\ toasts = <<Toast("success", "Dream journal entry saved!")>>
    /\ Len(dream_entries) = Len(Seeds) + 1
    /\ dream_entries[1].user_id = dream_entries[Len(dream_entries)].user_id
    /\ SameContent(dream_entries[1], dream_entries[Len(dream_entries)])
    /\ dream_entries[1].id # dream_entries[Len(dream_entries)].id

\* the fields of the journal form
FormFields ==
    {"dreamTitle", "dreamContent", "sleepHours", "caffeineIntake",
     "sleepQuality", "mood", "stressLevel"}

\* C20: after a create-entry that succeeds at the store the journal form
\* has its defaults (title and content empty, sleep hours 7, caffeine 0,
\* sleep quality 5, no mood, stress 5); after one that fails at the store
\* or finds no session every field has the value it had at the submission.
C20_FormResetOnSuccessOnly ==
    [][/\ \/ /\ journal'.dreamTitle = <<>>
             /\ journal'.dreamContent = <<>>
             /\ journal'.sleepHours = 70
             /\ journal'.caffeineIntake = 0
             /\ journal'.sleepQuality = 5
             /\ journal'.mood = "none"
             /\ journal'.stressLevel = 5
          \/ ~handleSaveEntryOk
       /\ \/ \A f \in FormFields : journal'[f] = journal[f]
          \/ ~ \/ handleSaveEntryNoUser
               \/ \E m \in StoreErrors : handleSaveEntryError(m)]_vars

\* an entry with a mood has been saved, and the form has no mood
C20_Witness ==
    /\ Mounted("journal")
    /\ toasts = <<Toast("success", "Dream journal entry saved!")>>
    /\ dream_entries[Len(dream_entries)].mood = "good"
    /\ journal.mood = "none"
    /\ journal.dreamTitle = <<>>
    /\ ~journal.isLoading

\* C21: an entry in the store keeps the values it was inserted with for as
\* long as it exists: no step changes a row, the client sends no update to
\* the entry store, and a row leaves the store only in a delete-all of its
\* owner that succeeds.
C21_RowsAreImmutable ==
    [][/\ \A i \in DOMAIN dream_entries :
             \/ \E j \in DOMAIN dream_entries' :
                   dream_entries'[j] = dream_entries[i]
             \/ /\ handleClearDataOk
                /\ dream_entries[i].user_id = session
       /\ \A i \in DOMAIN dream_entries, j \in DOMAIN dream_entries' :
             dream_entries'[j].id = dream_entries[i].id
                 => dream_entries'[j] = dream_entries[i]
       /\ \A i \in DOMAIN requests' :
             requests'[i].to = "dream_entries"
                 => requests'[i].op \in {"insert", "select", "count",
                                         "delete"}]_vars

\* an entry has been added to the rows the store held, and a later
\* create-entry was answered with an error: all the rows are as they were
C21_Witness ==
    /\ Len(dream_entries) = Len(Seeds) + 1
    /\ SubSeq(dream_entries, 1, Len(Seeds)) = Seeds
    /\ dream_entries[Len(dream_entries)].user_id = "u1"
    /\ toasts = <<Toast("error", "permission denied")>>
    /\ requests = <<Request("dream_entries", "insert", "u1")>>

\* a step in which the journal page sends an insert to the entry store
InsertSent ==
    \E i \in DOMAIN requests' :
        requests'[i].to = "dream_entries" /\ requests'[i].op = "insert"

\* C22: whatever was done with the journal form, every entry submitted to
\* the insert has sleep_quality in 1..10, stress_level in 0..10,
\* caffeine_intake in 0..10, sleep_hours in 0..12 (0..120 tenths) and a
\* mood that is great, good, neutral, bad or absent, so that it satisfies
\* the CHECK constraints of the table; the rows of the table satisfy them
\* too.
C22_PayloadInRange ==
    [][/\ \/ /\ Entry(session).sleep_quality \in 1..10
             /\ Entry(session).stress_level \in 0..10
             /\ Entry(session).caffeine_intake \in 0..10
             /\ Entry(session).sleep_hours \in 0..120
             /\ Entry(session).mood
                   \in {"great", "good", "neutral", "bad", "none"}
             /\ CheckConstraints(Entry(session))
          \/ ~InsertSent
       /\ \A i \in DOMAIN dream_entries' :
             CheckConstraints(dream_entries'[i])]_vars

\* an entry with the quality of the last button has been stored
C22_Witness ==
    /\ toasts = <<Toast("success", "Dream journal entry saved!")>>
    /\ requests = <<Request("dream_entries", "insert", "u1")>>
    /\ Len(dream_entries) = Len(Seeds) + 1
    /\ dream_entries[Len(dream_entries)].sleep_quality = 10

\* an entry with 12 hours of sleep, the end of the slider, has been stored
PayloadAtTheSliderEnd ==
    /\ requests = <<Request("dream_entries", "insert", "u1")>>
    /\ Len(dream_entries) = Len(Seeds) + 1
    /\ dream_entries[Len(dream_entries)].sleep_hours = 120

\* the rows the store holds for the user of the session in the next state
StoreCount == Cardinality(RowsOf(dream_entries', session'))

\* C29: on the profile page the count shown equals the number of rows of
\* the current user once the count load is answered with success and no
\* request is on its way; a delete-all that succeeds leaves the count 0,
\* also when the count request of the mount is answered after it; a
\* delete-all that fails leaves the count as it was.
C29_CountMatchesStore ==
    [][/\ \/ profile'.entryCount = StoreCount
          \/ ~loadEntryCountOk
       /\ \/ profile'.entryCount = 0 /\ StoreCount = 0
          \/ ~handleClearDataOk
       /\ \/ profile'.entryCount = 0
          \/ ~(Mounted("profile") /\ session # NullUser /\ StoreCount = 0
               /\ ~profile'.counting)
       /\ \/ profile'.entryCount = profile.entryCount
          \/ ~ \/ handleClearDataNoUser
               \/ \E m \in StoreErrors : handleClearDataError(m)]_vars

\* What holds in place of C29: the count shown after a count load is the
\* number of rows the store held when it counted; a delete-all that
\* succeeds sets the count to 0 and a delete-all that fails leaves it; with
\* no delete-all answered between the counting and its answer the count
\* shown is that of the store.
CountIsOfTheTimeOfCounting ==
    [][/\ \/ profile'.entryCount = profile.counted
          \/ ~loadEntryCountOk
       /\ \/ profile'.counted = Cardinality(RowsOf(dream_entries, session))
          \/ ~loadEntryCountCounted
       /\ \/ profile'.entryCount = 0 /\ StoreCount = 0
          \/ ~handleClearDataOk
       /\ \/ profile'.entryCount = profile.entryCount
          \/ ~ \/ handleClearDataNoUser
               \/ \E m \in StoreErrors : handleClearDataError(m)]_vars

\* the rows of user u1 are deleted and the page shows the count the store
\* took before
StaleCountShown ==
    /\ Mounted("profile")
    /\ session = "u1"
    /\ ~profile.counting
    /\ RowsOf(dream_entries, "u1") = {}
    /\ profile.entryCount = Cardinality(RowsOf(Seeds, "u1"))
    /\ profile.entryCount > 0

\* a step in which a sign-up is answered with the new user
SignedUp == \E u \in Users, c \in BOOLEAN : handleSubmitSignedUp(u, c)

ProfileUpdated ==
    /\ toasts = <<Toast("success", "Profile updated successfully!")>>
    /\ profiles["u1"] # ProfileRows["u1"]
    /\ profiles["u2"] = ProfileRows["u2"]

\* nobody is logged in: the login page is shown
LoggedOut == ~isLoggedIn /\ currentUser = Null /\ currentPage = "login"

\* a step in which a sign-in of the login page is answered with a user
SignedIn ==
    \/ \E f \in BOOLEAN : handleTestLoginSignedIn(f)
    \/ \E u \in Users, f \in BOOLEAN : handleSubmitSignedIn(u, f)
    \/ \E u \in Users, c \in BOOLEAN : handleSubmitSignedUp(u, c)

\* C24: after a sign-out, or a notification without a session, nobody is
\* logged in (isLoggedIn false, currentUser null, the login page), and
\* with no session at the auth service that stays so until a new sign-in;
\* a profile lookup that was started before the sign-out and is answered
\* after it does not log anybody in.
C24_LoggedOutStays ==
    [][/\ \/ ~isLoggedIn' /\ currentUser' = Null /\ currentPage' = "login"
          \/ ~(handleLogout \/ onAuthStateChangeNoSession)
       /\ \/ ~isLoggedIn' /\ currentUser' = Null /\ currentPage' = "login"
          \/ SignedIn
          \/ ~(LoggedOut /\ session = NullUser)]_vars

\* What holds in place of C24: a sign-out and a notification without a
\* session log out, and from then on only a new sign-in or the answer of a
\* profile lookup logs in.
LoggedOutUntilLookup ==
    [][/\ \/ ~isLoggedIn' /\ currentUser' = Null /\ currentPage' = "login"
          \/ ~(handleLogout \/ onAuthStateChangeNoSession)
       /\ \/ ~isLoggedIn' /\ currentUser' = Null /\ currentPage' = "login"
          \/ SignedIn
          \/ \E u \in Users, f \in BOOLEAN : loadUserProfile(u, f)
          \/ ~(LoggedOut /\ session = NullUser)]_vars

\* the journal page is shown to a user while the auth service holds no
\* session
LoggedInWithoutSession ==
    /\ isLoggedIn
    /\ currentPage = "journal"
    /\ currentUser = [email |-> EmailOf("u1"), name |-> NameOf("u1")]
    /\ session = NullUser
    /\ lookups = {}

\* C30: while a user is logged in currentPage changes only by a click in
\* the navigation or by a logout (the click, or a notification without a
\* session); a notification with a session, as for a refreshed token,
\* while the analytics or the profile page is shown leaves the page as it
\* is, and so does all that follows from it.
C30_PageChangesByUserOnly ==
    [][\/ currentPage' = currentPage
       \/ \E page \in Pages : onNavigate(page)
       \/ handleLogout
       \/ onAuthStateChangeNoSession
       \/ ~isLoggedIn]_vars

\* What holds in place of C30: while a user is logged in currentPage
\* changes by a click in the navigation, by a logout, or by the answer of
\* the profile lookup of a notification with a session, which shows the
\* journal page; the callback of the notification itself changes nothing
\* but the lookups that wait.
PageChangesAlsoByLookup ==
    [][/\ \/ currentPage' = currentPage
          \/ \E page \in Pages : onNavigate(page)
          \/ handleLogout
          \/ onAuthStateChangeNoSession
          \/ /\ currentPage' = "journal"
             /\ \E u \in Users, f \in BOOLEAN : loadUserProfile(u, f)
          \/ ~isLoggedIn
       /\ \/ UNCHANGED <<analytics, currentPage, isLoggedIn, currentUser,
                         login, journal, profile>>
          \/ ~onAuthStateChangeSession]_vars

ProfilePageShown ==
    /\ isLoggedIn
    /\ currentPage = "profile"
    /\ currentUser = [email |-> EmailOf("u1"), name |-> TestUserName]

\* a step in which the App mounts the analytics page
AnalyticsMounted ==
    /\ ~Mounted("analytics")
    /\ isLoggedIn' /\ currentPage' = "analytics"

\* the requests among sent that are a select on the entry store
Selects(sent) ==
    { i \in DOMAIN sent :
        sent[i].to = "dream_entries" /\ sent[i].op = "select" }

\* C25: every mount of the analytics page starts with an empty list and
\* the defaults of the view and starts one load, which sends one
\* select-all; when that load succeeds the list holds exactly the rows the
\* store has for the user at that time, each once, the latest first, so an
\* entry saved before the navigation is in it and nothing of an earlier
\* mount is.
C25_FreshLoadPerMount ==
    [][/\ \/ /\ entries' = <<>>
             /\ filteredAndSortedEntries' = <<>>
             /\ searchQuery' = <<>>
             /\ sortBy' = "created_at" /\ sortOrder' = "desc"
             /\ isLoading'
             /\ requests' = <<GetUser>>
          \/ ~AnalyticsMounted
       /\ \/ /\ Cardinality(Selects(requests')) = 1
             /\ Mounted("analytics") /\ isLoading /\ ~isLoading'
          \/ Selects(requests') = {}
       /\ \/ /\ Len(entries') = Cardinality(RowsOf(dream_entries, session))
             /\ Range(entries') = RowsOf(dream_entries, session)
             /\ \A i \in 1..(Len(entries') - 1) :
                   entries'[i].created_at >= entries'[i + 1].created_at
          \/ ~loadEntriesOk(SelectAll(dream_entries, session, session))
       /\ \/ isLoading' = isLoading
          \/ AnalyticsMounted
          \/ Mounted("analytics") /\ isLoading /\ ~isLoading'
          \/ ~isLoggedIn' \/ currentPage' # "analytics"]_vars

\* the analytics page shows the entry of before and, first, one saved on
\* the journal page since the App was opened
C25_Witness ==
    /\ Mounted("analytics")
    /\ ~isLoading
    /\ Len(entries) = 2
    /\ entries[1].id > Len(SessionSeeds)
    /\ entries[2] = SessionSeeds[1]
    /\ requests = <<Request("dream_entries", "select", "u1")>>

\* the analytics page, mounted again after the data was cleared, shows no
\* entry
NothingCarriedOver ==
    /\ Mounted("analytics")
    /\ ~isLoading
    /\ entries = <<>>
    /\ RowsOf(dream_entries, "u1") = {}
    /\ requests = <<Request("dream_entries", "select", "u1")>>

\* C28: on a mounted journal page at most one create-entry is on its way
\* at any time, the button being disabled while the loading flag is set;
\* on the login page at most one of the submit and the test login is.
C28_OneRequestInFlight ==
    /\ journal.saving <= 1
    /\ login.submitting <= 1
    /\ journal.saving = 1 => Mounted("journal") /\ journal.isLoading
    /\ login.submitting = 1 => Mounted("login") /\ login.isLoading

\* a create-entry is on its way: the flag is set
C28_Witness ==
    /\ Mounted("journal")
    /\ journal.saving = 1
    /\ journal.isLoading
    /\ requests = <<GetUser>>

\* a test login is on its way: the flag is set
TestLoginInFlight ==
    /\ Mounted("login")
    /\ login.submitting = 1
    /\ login.testing
    /\ login.isLoading

\* a request of the login page is answered
LoginAnswered ==
    \/ \E m \in AuthErrors : handleSubmitError(m)
    \/ handleSubmitNoUser
    \/ \E u \in Users, c \in BOOLEAN : handleSubmitSignedUp(u, c)
    \/ \E u \in Users, f \in BOOLEAN : handleSubmitSignedIn(u, f)
    \/ handleTestLoginError
    \/ handleTestLoginNoUser
    \/ \E f \in BOOLEAN : handleTestLoginSignedIn(f)

\* a request of handleSaveEntry is answered
SaveEntryAnswered ==
    \/ handleSaveEntryNoUser
    \/ \E m \in StoreErrors : handleSaveEntryError(m)
    \/ handleSaveEntryOk

\* a request of handleSaveProfile is answered
SaveProfileAnswered ==
    \/ handleSaveProfileNoUser
    \/ \E m \in StoreErrors : handleSaveProfileError(m)
    \/ handleSaveProfileOk

\* the application with every request answered in the end
AppFairSpec ==
    /\ AppSpec
    /\ WF_vars(LoginAnswered)
    /\ WF_vars(SaveEntryAnswered)
    /\ WF_vars(SaveProfileAnswered)

\* C27: with every request answered, every login, sign-up, test login,
\* create-entry and update-profile that sets the loading flag of its page
\* clears the flag in the end, whether it succeeds, fails or finds no
\* session.
C27_FlagEventuallyCleared ==
    /\ login.isLoading ~> ~login.isLoading
    /\ journal.isLoading ~> ~journal.isLoading
    /\ profile.isLoading ~> ~profile.isLoading

\* a create-entry that found no user has cleared the flag
C27_Witness ==
    /\ Mounted("journal")
    /\ session = NullUser
    /\ toasts = <<Toast("error", "You must be logged in to save entries")>>
    /\ ~journal.isLoading
    /\ journal.saving = 0

====
